---- MODULE Spec2Model ----
(***************************************************************************)
(* kube-agentic-networking: the xDS distribution server                    *)
(* (pkg/infra/xds: Server, NewServer, UpdateXDSServer), the proxy          *)
(* lifecycle (pkg/infra/envoy: EnsureProxy, DeleteProxy), the RBAC         *)
(* policy compiler (pkg/translator/authPolicy.go) and the cluster compiler *)
(* (pkg/translator: convertBackendToCluster).                              *)
(*                                                                         *)
(* The snapshot cache and the discovery server are go-control-plane's      *)
(* cachev3.SnapshotCache and serverv3.Server, which NewServer constructs   *)
(* and UpdateXDSServer calls.  They are modelled by what those calls do:   *)
(*   NewSnapshot(version, resources) fails on an unknown resource type and *)
(*     otherwise stamps every resource type given with the one version;    *)
(*   SetSnapshot stores the snapshot under the node id and then answers    *)
(*     the node's open watches whose version differs; an answer that       *)
(*     cannot be delivered (context done) makes it return an error, the    *)
(*     snapshot stays stored;                                              *)
(*   CreateWatch answers at once when a snapshot exists whose version      *)
(*     differs from the request's, and otherwise leaves a watch open.      *)
(***************************************************************************)
EXTENDS Integers, Sequences, FiniteSets, TLC

VARIABLES
    version,       \* Server.version (atomic.Uint64)
    cache,         \* Server.cache: node id -> snapshot
    call,          \* per caller: position inside UpdateXDSServer and its locals
    watch,         \* per proxy connection: its stream towards the discovery server
    tokens,        \* history: the version every invocation read, in order
    commits,       \* history: per node, the versions stored in the cache, in order
    last,          \* history: the operation that returned last
    k8s,           \* the proxy's Kubernetes objects per node id
    rbacIn,        \* input of the RBAC compiler: backend and lister content
    rbacOut,       \* its output
    clusterIn,     \* input of the cluster compiler: a Backend
    clusterOut,    \* its output
    fetch,         \* fetchBackend: its arguments and its result
    xdsRun,        \* Server.Run: the host's interfaces, Address, Port, listener, context
    conns,         \* the connections the gRPC server has accepted
    gatewayqueue,  \* Controller.gatewayqueue: the rate limited work queue of gateway keys
    workers,       \* per worker: its position in processNextWorkItem and the calls it made
    events,        \* the informers: events handled, what the last one added, the Gateways listed
    ensure,        \* the last EnsureProxy call: the calls it made, what it created and returned
    build          \* the Backends of one snapshot and what the compilers made of them

xdsVars == <<version, cache, call, watch, tokens, commits, last>>
rbacVars == <<rbacIn, rbacOut>>
clusterVars == <<clusterIn, clusterOut>>
coreVars == <<xdsVars, k8s, rbacVars, clusterVars>>
ctlVars == <<fetch, xdsRun, conns, gatewayqueue, workers, events, ensure, build>>
vars == <<coreVars, ctlVars>>

----------------------------------------------------------------------------
(* Bounds *)

MaxVersion == 3
NumCallers == 2
NumWatchers == 1
MaxRules == 2
MaxPolicies == 2

Callers == 1..NumCallers
Watchers == 1..NumWatchers

----------------------------------------------------------------------------
(* Gateways, node ids and resources *)

Gateways == {[namespace |-> "default", name |-> "gw-a"],
             [namespace |-> "default", name |-> "gw-b"]}

\* hex(sha256("<namespace>/<name>")[:6]); a table over the gateways modelled
HashPrefix(namespace, name) ==
    CASE namespace = "default" /\ name = "gw-a" -> "a1"
      [] namespace = "default" /\ name = "gw-b" -> "b2"
      [] OTHER -> "ff"

proxyName(namespace, name) == "envoy-proxy-" \o HashPrefix(namespace, name)

Nodes == {proxyName(g.namespace, g.name) : g \in Gateways}

\* resourcev3 types the snapshot knows, and one it does not
KnownTypes == {"listener", "cluster"}
UnknownType == "bogus"
Payloads == {"cfg1", "cfg2"}
NoItems == ""

\* resources map[resourcev3.Type][]Resource handed to UpdateXDSServer
ResourceInputs ==
    {[t \in KnownTypes |-> p] : p \in Payloads}
        \cup {[t \in {"listener", UnknownType} |-> "cfg1"]}

NoSnapshot ==
    [present |-> FALSE,
     res |-> [t \in KnownTypes |-> [version |-> "", items |-> NoItems]]]

----------------------------------------------------------------------------
(* The xDS server: version counter and snapshot cache *)

IdleCall ==
    [pc |-> "idle", nodeid |-> "", resources |-> [t \in {} |-> ""],
     version |-> 0, snapshot |-> NoSnapshot]

NoWatch == [phase |-> "off", node |-> "", type |-> "", ver |-> "", recv |-> NoItems]

NoOp == [op |-> "none", node |-> "", err |-> ""]

\* a counter whose increment is lost
AtomicAddLost(v) == v

\* s.version.Add(1) on an atomic.Uint64; the counter stays below MaxVersion here,
\* far from the wrap-around at 2^64
AtomicAdd(v) == v + 1

\* version := s.version.Load(): the counter's value when the load runs
AtomicLoad(c) == version

\* fmt.Sprintf("%d", version)
VersionToken(v) == ToString(v)

\* cachev3.NewSnapshot(version, resources)
NewSnapshot(token, resources) ==
    IF \E t \in DOMAIN resources : t \notin KnownTypes
    THEN [err |-> TRUE, snap |-> NoSnapshot]
    ELSE [err |-> FALSE,
          snap |-> [present |-> TRUE,
                    res |-> [t \in KnownTypes |->
                               IF t \in DOMAIN resources
                               THEN [version |-> token, items |-> resources[t]]
                               ELSE [version |-> "", items |-> NoItems]]]]

\* a commit that replaces the listeners only and keeps the old entry's other types
StoreSnapshotPerType(c, nodeid, snapshot) ==
    [c EXCEPT ![nodeid] =
        [present |-> TRUE,
         res |-> [t \in KnownTypes |->
                    IF t = "listener" THEN snapshot.res[t] ELSE c[nodeid].res[t]]]]

\* a cache that does not key its entries by node id
StoreSnapshotAllNodes(c, nodeid, snapshot) == [n \in DOMAIN c |-> snapshot]

\* the cache after s.cache.SetSnapshot(ctx, nodeid, snapshot) has stored the snapshot
StoreSnapshot(c, nodeid, snapshot) == [c EXCEPT ![nodeid] = snapshot]

\* the open watches of the node that SetSnapshot has to answer
WatchesToAnswer(nodeid, snapshot) ==
    {w \in Watchers : /\ watch[w].phase = "open"
                      /\ watch[w].node = nodeid
                      /\ snapshot.res[watch[w].type].version /= watch[w].ver}

\* a watch answered with the snapshot's resources of its type; the proxy then
\* acknowledges, i.e. requests again with the version it was given
Answered(w, snapshot) ==
    [watch[w] EXCEPT !.phase = "req",
                     !.ver = snapshot.res[watch[w].type].version,
                     !.recv = snapshot.res[watch[w].type].items]

\* UpdateXDSServer, first statement: s.version.Add(1)
UpdateXDSServer_Add(c, nodeid, resources) ==
    /\ call[c].pc = "idle"
    /\ version < MaxVersion
    /\ version' = AtomicAdd(version)
    /\ call' = [call EXCEPT ![c] = [IdleCall EXCEPT !.pc = "load", !.nodeid = nodeid,
                                                   !.resources = resources]]
    /\ UNCHANGED <<cache, watch, tokens, commits, last, k8s, rbacVars, clusterVars, ctlVars>>

\* UpdateXDSServer: version := s.version.Load(); snapshot, err := NewSnapshot(...)
UpdateXDSServer_Load(c) ==
    /\ call[c].pc = "load"
    /\ LET v == AtomicLoad(c)
           r == NewSnapshot(VersionToken(v), call[c].resources)
       IN /\ tokens' = Append(tokens, v)
          /\ IF r.err
             THEN /\ call' = [call EXCEPT ![c] = IdleCall]
                  /\ last' = [op |-> "update", node |-> call[c].nodeid,
                              err |-> "failed to create new snapshot cache"]
             ELSE /\ call' = [call EXCEPT ![c].pc = "set", ![c].version = v,
                                          ![c].snapshot = r.snap]
                  /\ UNCHANGED last
    /\ UNCHANGED <<version, cache, watch, commits, k8s, rbacVars, clusterVars, ctlVars>>

\* UpdateXDSServer: s.cache.SetSnapshot(ctx, nodeid, snapshot) and the return
UpdateXDSServer_SetSnapshot(c) ==
    /\ call[c].pc = "set"
    /\ LET nodeid == call[c].nodeid
           snapshot == call[c].snapshot
           todo == WatchesToAnswer(nodeid, snapshot)
       IN \E done \in SUBSET todo :
            /\ cache' = StoreSnapshot(cache, nodeid, snapshot)
            /\ watch' = [w \in Watchers |->
                           IF w \in done THEN Answered(w, snapshot) ELSE watch[w]]
            /\ commits' = [commits EXCEPT ![nodeid] = Append(@, call[c].version)]
            /\ last' = [op |-> "update", node |-> nodeid,
                        err |-> IF done = todo THEN ""
                                ELSE "failed to update resource snapshot in management server"]
    /\ call' = [call EXCEPT ![c] = IdleCall]
    /\ UNCHANGED <<version, tokens, k8s, rbacVars, clusterVars, ctlVars>>

----------------------------------------------------------------------------
(* Proxy connections (serverv3.Server over the cache NewServer built) *)

\* a proxy opens a stream and subscribes to one resource type of its node
Connect(w, nodeid, type) ==
    /\ watch[w].phase = "off"
    /\ watch' = [watch EXCEPT ![w] = [NoWatch EXCEPT !.phase = "req", !.node = nodeid,
                                                    !.type = type]]
    /\ UNCHANGED <<version, cache, call, tokens, commits, last, k8s, rbacVars, clusterVars, ctlVars>>

\* the server hands the stream's request to the cache
CreateWatch(w) ==
    /\ watch[w].phase = "req"
    /\ LET snapshot == cache[watch[w].node]
       IN IF ~snapshot.present \/ snapshot.res[watch[w].type].version = watch[w].ver
          THEN watch' = [watch EXCEPT ![w].phase = "open"]
          ELSE watch' = [watch EXCEPT ![w] = Answered(w, snapshot)]
    /\ UNCHANGED <<version, cache, call, tokens, commits, last, k8s, rbacVars, clusterVars, ctlVars>>

\* the stream ends; its watch is cancelled
Disconnect(w) ==
    /\ watch[w].phase /= "off"
    /\ watch' = [watch EXCEPT ![w] = NoWatch]
    /\ UNCHANGED <<version, cache, call, tokens, commits, last, k8s, rbacVars, clusterVars, ctlVars>>

----------------------------------------------------------------------------
(* Proxy lifecycle: the Kubernetes objects of one proxy, named by its node id *)

\* the order in which EnsureProxy ensures the objects
EnsureOrder == <<"ServiceAccount", "ConfigMap", "Deployment", "Service">>

\* the order in which DeleteProxy deletes them
DeleteOrder == <<"Deployment", "Service", "ConfigMap", "ServiceAccount">>

\* ensureDeployment and ensureService wait for the object after creating it
Waited == {"Deployment", "Service"}

Prefix(order, k) == {order[i] : i \in 1..k}

\* EnsureProxy(ctx, client, gw, xdsServer): the first k steps succeed (an
\* object found is kept, one not found is created); step k+1, if any, fails
\* at its Get, at its Create, or (made = TRUE) in the wait after its Create
EnsureProxy(gw) ==
    LET nodeID == proxyName(gw.namespace, gw.name)
    IN \E k \in 0..Len(EnsureOrder), made \in BOOLEAN :
         /\ made => (k < Len(EnsureOrder) /\ EnsureOrder[k + 1] \in Waited)
         /\ k8s' = [k8s EXCEPT ![nodeID] =
                        @ \cup Prefix(EnsureOrder, k)
                          \cup (IF made THEN {EnsureOrder[k + 1]} ELSE {})]
         /\ last' = [op |-> "ensure", node |-> nodeID,
                     err |-> IF k = Len(EnsureOrder) THEN ""
                             ELSE "failed to ensure " \o EnsureOrder[k + 1]]
         /\ UNCHANGED <<version, cache, call, watch, tokens, commits, rbacVars, clusterVars, ctlVars>>

\* DeleteProxy(ctx, client, namespace, name): the first k deletions succeed
\* (NotFound counts as success); deletion k+1, if any, fails and aborts.
\* The xDS cache is not touched.
DeleteProxy(namespace, name) ==
    LET nodeID == proxyName(namespace, name)
    IN \E k \in 0..Len(DeleteOrder) :
         /\ k8s' = [k8s EXCEPT ![nodeID] = @ \ Prefix(DeleteOrder, k)]
         /\ last' = [op |-> "delete", node |-> nodeID,
                     err |-> IF k = Len(DeleteOrder) THEN ""
                             ELSE "failed to delete envoy " \o DeleteOrder[k + 1]]
         /\ UNCHANGED <<version, cache, call, watch, tokens, commits, rbacVars, clusterVars, ctlVars>>

----------------------------------------------------------------------------
(* RBAC policy compiler (pkg/translator/authPolicy.go) *)

allowMCPSessionClosePolicyName == "allow-mcp-session-close"
allowAnyoneToInitializeAndListToolsPolicyName == "allow-anyone-to-initialize-and-list-tools"
initializeMethod == "initialize"
initializedMethod == "notifications/initialized"
toolsListMethod == "tools/list"
mcpSessionIDHeader == "mcp-session-id"
toolsCallMethod == "tools/call"
mcpProxyFilterName == "mcp_proxy"
ActionAllow == "ALLOW"
RBAC_ALLOW == "ALLOW"
RBAC_DENY == "DENY"

\* policy names that count the rules from 1
RBACPolicyNameOneBased(namespace, name, i) ==
    namespace \o "-" \o name \o "-rule-" \o ToString(i + 1)

\* fmt.Sprintf(RBACPolicyNameFormat, namespace, name, i), format "%s-%s-rule-%d"
RBACPolicyName(namespace, name, i) ==
    namespace \o "-" \o name \o "-rule-" \o ToString(i)

NilAuthPolicy == [nil |-> TRUE]

EmptyMap == [x \in {} |-> 0]

\* m[k] = v on a Go map
MapPut(m, k, v) == [x \in DOMAIN m \cup {k} |-> IF x = k THEN v ELSE m[x]]

\* append(a, b...)
Concat(a, b) == a \o b

\* a StringMatcher with MatchPattern Exact
Exact(s) == [kind |-> "exact", value |-> s]

\* a listing over all namespaces
ListAuthPoliciesAllNamespaces(lister, namespace) == lister.items

\* authPolicyLister.AuthPolicies(namespace).List(labels.Everything())
ListAuthPolicies(lister, namespace) ==
    SelectSeq(lister.items, LAMBDA p : p.namespace = namespace)

\* the loop of findAuthPolicyForBackend: the index of the first policy from
\* position i on that targets the backend, 0 if none does
RECURSIVE FirstTargeting(_, _, _)
FirstTargeting(allAuthPolicies, backend, i) ==
    IF i > Len(allAuthPolicies) THEN 0
    ELSE IF /\ allAuthPolicies[i].targetRef.kind = "Backend"
            /\ allAuthPolicies[i].targetRef.name = backend.name
         THEN i
         ELSE FirstTargeting(allAuthPolicies, backend, i + 1)

\* a lookup that treats a failed listing as "no policy"
findAuthPolicySwallowsError(backend, lister) ==
    LET allAuthPolicies == ListAuthPolicies(lister, backend.namespace)
        i == FirstTargeting(allAuthPolicies, backend, 1)
    IN [policy |-> IF lister.err /= "" \/ i = 0 THEN NilAuthPolicy
                   ELSE allAuthPolicies[i],
        err |-> ""]

findAuthPolicyForBackend(backend, lister) ==
    IF lister.err /= ""
    THEN [policy |-> NilAuthPolicy,
          err |-> "failed to list AuthPolicies in namespace " \o backend.namespace
                      \o ": " \o lister.err]
    ELSE LET allAuthPolicies == ListAuthPolicies(lister, backend.namespace)
             i == FirstTargeting(allAuthPolicies, backend, 1)
         IN [policy |-> IF i = 0 THEN NilAuthPolicy ELSE allAuthPolicies[i],
             err |-> ""]

\* an action resolution that honours a DENY it does not support
rbacActionDenyKept(authPolicy) ==
    IF authPolicy = NilAuthPolicy THEN RBAC_ALLOW
    ELSE IF authPolicy.action = "DENY" THEN RBAC_DENY
    ELSE RBAC_ALLOW

rbacActionFromAuthPolicy(authPolicy) ==
    LET defaultAction == RBAC_ALLOW
    IN IF authPolicy = NilAuthPolicy THEN defaultAction
       ELSE IF authPolicy.action = ActionAllow THEN RBAC_ALLOW
       ELSE defaultAction

\* the principal built for one source: header x-user-role equals the source
SourcePrincipal(source) ==
    [kind |-> "header", name |-> "x-user-role", match |-> Exact(source)]

\* principals built from the identities only, the service accounts forgotten
RulePrincipalsIdentitiesOnly(rule) ==
    LET allSources == rule.source.identities
    IN IF Len(allSources) > 0
       THEN <<[kind |-> "or_ids",
               ids |-> [i \in 1..Len(allSources) |-> SourcePrincipal(allSources[i])]]>>
       ELSE << >>

\* the principals of one rule
RulePrincipals(rule) ==
    LET allSources == Concat(rule.source.identities, rule.source.serviceAccounts)
    IN IF Len(allSources) > 0
       THEN <<[kind |-> "or_ids",
               ids |-> [i \in 1..Len(allSources) |-> SourcePrincipal(allSources[i])]]>>
       ELSE << >>

\* a tools matcher that looks at the first listed tool only
ToolsMatcherFirstOnly(tools) == Exact(tools[1])

\* the value matcher built from the rule's tools
ToolsMatcher(tools) ==
    LET toolValueMatchers == [i \in 1..Len(tools) |-> Exact(tools[i])]
    IN IF Len(toolValueMatchers) = 1
       THEN toolValueMatchers[1]
       ELSE [kind |-> "or_match", matchers |-> toolValueMatchers]

\* a Permission_SourcedMetadata on the mcp_proxy filter's metadata
MetadataPermission(path, value) ==
    [kind |-> "sourced_metadata", filter |-> mcpProxyFilterName,
     path |-> path, value |-> value]

\* permissions that read an empty tools list as "every request"
RulePermissionsAnyWhenEmpty(rule) ==
    IF Len(rule.tools) > 0
    THEN <<[kind |-> "and_rules",
            rules |-> <<MetadataPermission(<<"method">>, Exact(toolsCallMethod)),
                        MetadataPermission(<<"params", "name">>,
                                           ToolsMatcher(rule.tools))>>]>>
    ELSE <<[kind |-> "any"]>>

\* the permissions of one rule
RulePermissions(rule) ==
    IF Len(rule.tools) > 0
    THEN <<[kind |-> "and_rules",
            rules |-> <<MetadataPermission(<<"method">>, Exact(toolsCallMethod)),
                        MetadataPermission(<<"params", "name">>,
                                           ToolsMatcher(rule.tools))>>]>>
    ELSE << >>

\* the loop of translateAuthPolicyToRBAC over rules 1..n (Go indexes from 0)
RECURSIVE TranslateRules(_, _, _)
TranslateRules(rules, backend, n) ==
    IF n = 0 THEN EmptyMap
    ELSE MapPut(TranslateRules(rules, backend, n - 1),
                RBACPolicyName(backend.namespace, backend.name, n - 1),
                [principals |-> RulePrincipals(rules[n]),
                 permissions |-> RulePermissions(rules[n])])

translateAuthPolicyToRBAC(authPolicy, backend) ==
    TranslateRules(authPolicy.rules, backend, Len(authPolicy.rules))

\* a session-close policy that asks for the x-user-role header as well
SessionCloseNeedsIdentity ==
    [principals |->
        <<[kind |-> "and_ids",
           ids |-> <<[kind |-> "header", name |-> ":method", match |-> Exact("DELETE")],
                     [kind |-> "header", name |-> mcpSessionIDHeader,
                      match |-> [kind |-> "present"]],
                     [kind |-> "header", name |-> "x-user-role",
                      match |-> [kind |-> "present"]]>>]>>,
     permissions |-> <<[kind |-> "any"]>>]

buildAllowMCPSessionClosePolicy ==
    [principals |->
        <<[kind |-> "and_ids",
           ids |-> <<[kind |-> "header", name |-> ":method", match |-> Exact("DELETE")],
                     [kind |-> "header", name |-> mcpSessionIDHeader,
                      match |-> [kind |-> "present"]]>>]>>,
     permissions |-> <<[kind |-> "any"]>>]

\* an initialize-and-list policy without the rule for GET requests
InitializeAndListWithoutGet ==
    [principals |-> <<[kind |-> "any"]>>,
     permissions |->
        <<[kind |-> "or_rules",
           rules |-> <<MetadataPermission(<<"method">>,
                          [kind |-> "or_match",
                           matchers |-> <<Exact(initializeMethod),
                                          Exact(initializedMethod),
                                          Exact(toolsListMethod)>>])>>]>>]

buildAllowAnyoneToInitializeAndListToolsPolicy ==
    [principals |-> <<[kind |-> "any"]>>,
     permissions |->
        <<[kind |-> "or_rules",
           rules |-> <<MetadataPermission(<<"method">>,
                          [kind |-> "or_match",
                           matchers |-> <<Exact(initializeMethod),
                                          Exact(initializedMethod),
                                          Exact(toolsListMethod)>>]),
                       [kind |-> "header", name |-> ":method",
                        match |-> Exact("GET")]>>]>>]

NoRBAC == [compiled |-> FALSE, err |-> "", action |-> "", policies |-> EmptyMap]

\* a compiler that, when no AuthPolicy targets the backend, adds a policy
\* matching every request
rbacConfigFailOpen(authPolicyLister, backend) ==
    LET found == findAuthPolicyForBackend(backend, authPolicyLister)
        authPolicy == found.policy
        translated == IF authPolicy /= NilAuthPolicy
                      THEN translateAuthPolicyToRBAC(authPolicy, backend)
                      ELSE MapPut(EmptyMap, "allow-all",
                                  [principals |-> <<[kind |-> "any"]>>,
                                   permissions |-> <<[kind |-> "any"]>>])
        action == rbacActionFromAuthPolicy(authPolicy)
        rbacPolicies ==
            MapPut(MapPut(translated, allowMCPSessionClosePolicyName,
                          buildAllowMCPSessionClosePolicy),
                   allowAnyoneToInitializeAndListToolsPolicyName,
                   buildAllowAnyoneToInitializeAndListToolsPolicy)
    IN IF found.err /= ""
       THEN [compiled |-> TRUE, err |-> found.err, action |-> "", policies |-> EmptyMap]
       ELSE [compiled |-> TRUE, err |-> "", action |-> action, policies |-> rbacPolicies]

rbacConfigFromAuthPolicy(authPolicyLister, backend) ==
    LET found == findAuthPolicyForBackend(backend, authPolicyLister)
        authPolicy == found.policy
        translated == IF authPolicy /= NilAuthPolicy
                      THEN translateAuthPolicyToRBAC(authPolicy, backend)
                      ELSE EmptyMap
        action == rbacActionFromAuthPolicy(authPolicy)
        rbacPolicies ==
            IF action = RBAC_ALLOW
            THEN MapPut(MapPut(translated, allowMCPSessionClosePolicyName,
                               buildAllowMCPSessionClosePolicy),
                        allowAnyoneToInitializeAndListToolsPolicyName,
                        buildAllowAnyoneToInitializeAndListToolsPolicy)
            ELSE translated
    IN IF found.err /= ""
       THEN [compiled |-> TRUE, err |-> found.err, action |-> "", policies |-> EmptyMap]
       ELSE [compiled |-> TRUE, err |-> "", action |-> action, policies |-> rbacPolicies]

\* ---- inputs of the compiler ----

IdA == "spiffe://td/ns/default/sa/a"
SaB == "default/b"
SaWildcard == "default/*"
IdC == "spiffe://td/ns/default/sa/c"

BackendInputs == {[namespace |-> "default", name |-> "mcp"],
                  [namespace |-> "prod", name |-> "mcp"]}

SourceInputs ==
    {[identities |-> << >>, serviceAccounts |-> << >>],
     [identities |-> <<IdA>>, serviceAccounts |-> << >>],
     [identities |-> <<IdA>>, serviceAccounts |-> <<SaB>>],
     [identities |-> << >>, serviceAccounts |-> <<SaWildcard>>]}

ToolInputs == {<< >>, <<"add">>, <<"add", "getTinyImage">>}

RuleInputs == {[source |-> src, tools |-> t] : src \in SourceInputs, t \in ToolInputs}

RuleLists == UNION {[1..n -> RuleInputs] : n \in 0..MaxRules}

ActionInputs == {"ALLOW", "", "DENY"}

TargetInputs == {[kind |-> k, name |-> n] : k \in {"Backend", "Service"},
                                            n \in {"mcp", "other"}}

\* the rule lists of the policies that do not target a modelled backend, and
\* of the policies that listers holding several policies are made of
FewRuleLists ==
    {<<[source |-> [identities |-> <<IdA>>, serviceAccounts |-> << >>],
        tools |-> <<"add">>]>>,
     <<[source |-> [identities |-> <<IdA>>, serviceAccounts |-> <<SaB>>],
        tools |-> <<"add", "getTinyImage">>]>>}

\* policies of every shape that target Backend mcp, and a few that target
\* something else
AuthPolicyInputs ==
    {[namespace |-> ns, name |-> "allow-agents", targetRef |-> tr, action |-> a,
      rules |-> rs] :
        ns \in {"default", "prod"}, tr \in {[kind |-> "Backend", name |-> "mcp"]},
        a \in ActionInputs, rs \in RuleLists}
    \cup
    {[namespace |-> ns, name |-> "allow-agents", targetRef |-> tr, action |-> a,
      rules |-> rs] :
        ns \in {"default", "prod"},
        tr \in TargetInputs \ {[kind |-> "Backend", name |-> "mcp"]},
        a \in ActionInputs, rs \in FewRuleLists}

\* the policies that listers holding several policies are made of
FewAuthPolicies ==
    {p \in AuthPolicyInputs : p.action = "ALLOW" /\ p.rules \in FewRuleLists}

\* the lister's content: no policy, one policy of any shape, several policies
\* of a few shapes, or a failing lister
ListerInputs ==
    {[err |-> "", items |-> << >>], [err |-> "informer cache unavailable", items |-> << >>],
     [err |-> "context deadline exceeded", items |-> << >>]}
        \cup {[err |-> "", items |-> <<p>>] : p \in AuthPolicyInputs}
        \cup {[err |-> "", items |-> l] :
                 l \in UNION {[1..n -> FewAuthPolicies] : n \in 2..MaxPolicies}}

NoRBACInput == [backend |-> [namespace |-> "", name |-> ""],
                lister |-> [err |-> "", items |-> << >>]]

\* one run of the compiler on the drawn input
Compile ==
    /\ ~rbacOut.compiled
    /\ rbacOut' = rbacConfigFromAuthPolicy(rbacIn.lister, rbacIn.backend)
    /\ UNCHANGED <<xdsVars, k8s, rbacIn, clusterVars, ctlVars>>

----------------------------------------------------------------------------
(* Cluster compiler (pkg/translator: convertBackendToCluster) *)

\* the timeout for new connections to a cluster's hosts, in seconds
defaultConnectTimeout == 5

\* fmt.Sprintf(ClusterNameFormat, namespace, name), format "%s-%s"
ClusterName(namespace, name) == namespace \o "-" \o name

\* fmt.Sprintf("%s.%s.svc.cluster.local", serviceName, namespace)
ServiceFQDN(serviceName, namespace) ==
    serviceName \o "." \o namespace \o ".svc.cluster.local"

\* uint32(backend.Spec.MCP.Port): the conversion keeps every port that is not
\* negative, as all of PortInputs are (a negative one would wrap to
\* port + 2^32, beyond the integers TLC computes with)
Uint32(p) == p

\* createClusterLoadAssignment(clusterName, host, port): one endpoint
createClusterLoadAssignment(clusterName, host, port) ==
    [clusterName |-> clusterName,
     endpoints |-> <<[address |-> host, port |-> port]>>]

NoTransportSocket == [set |-> FALSE, name |-> "", sni |-> ""]

NilCluster ==
    [name |-> "", connectTimeout |-> 0, type |-> "",
     loadAssignment |-> [clusterName |-> "", endpoints |-> << >>],
     transportSocket |-> NoTransportSocket]

\* a conversion that leaves the external cluster without TLS when the TLS
\* context cannot be serialized
convertBackendPlaintextOnAnyErr(backend, anyErr) ==
    LET clusterName == ClusterName(backend.namespace, backend.name)
        port == Uint32(backend.mcp.port)
        base == [NilCluster EXCEPT !.name = clusterName,
                                   !.connectTimeout = defaultConnectTimeout]
    IN IF backend.mcp.serviceName /= ""
       THEN [err |-> "",
             cluster |-> [base EXCEPT
                 !.type = "STRICT_DNS",
                 !.loadAssignment = createClusterLoadAssignment(
                     clusterName,
                     ServiceFQDN(backend.mcp.serviceName, backend.namespace), port)]]
       ELSE [err |-> "",
             cluster |-> [base EXCEPT
                 !.type = "LOGICAL_DNS",
                 !.loadAssignment = createClusterLoadAssignment(
                     clusterName, backend.mcp.hostname, port),
                 !.transportSocket = IF anyErr /= "" THEN NoTransportSocket
                                     ELSE [set |-> TRUE,
                                           name |-> "envoy.transport_sockets.tls",
                                           sni |-> backend.mcp.hostname]]]

\* a conversion that looks at the hostname first
convertBackendHostnameFirst(backend, anyErr) ==
    LET clusterName == ClusterName(backend.namespace, backend.name)
        port == Uint32(backend.mcp.port)
        base == [NilCluster EXCEPT !.name = clusterName,
                                   !.connectTimeout = defaultConnectTimeout]
    IN IF backend.mcp.hostname = ""
       THEN [err |-> "",
             cluster |-> [base EXCEPT
                 !.type = "STRICT_DNS",
                 !.loadAssignment = createClusterLoadAssignment(
                     clusterName,
                     ServiceFQDN(backend.mcp.serviceName, backend.namespace), port)]]
       ELSE IF anyErr /= ""
       THEN [err |-> anyErr, cluster |-> NilCluster]
       ELSE [err |-> "",
             cluster |-> [base EXCEPT
                 !.type = "LOGICAL_DNS",
                 !.loadAssignment = createClusterLoadAssignment(
                     clusterName, backend.mcp.hostname, port),
                 !.transportSocket = [set |-> TRUE,
                                      name |-> "envoy.transport_sockets.tls",
                                      sni |-> backend.mcp.hostname]]]

\* convertBackendToCluster(backend); anyErr is what anypb.New returns for the
\* upstream TLS context ("" for nil), read on the external path only
convertBackendToCluster(backend, anyErr) ==
    LET clusterName == ClusterName(backend.namespace, backend.name)
        port == Uint32(backend.mcp.port)
        base == [NilCluster EXCEPT !.name = clusterName,
                                   !.connectTimeout = defaultConnectTimeout]
    IN IF backend.mcp.serviceName /= ""
       THEN [err |-> "",
             cluster |-> [base EXCEPT
                 !.type = "STRICT_DNS",
                 !.loadAssignment = createClusterLoadAssignment(
                     clusterName,
                     ServiceFQDN(backend.mcp.serviceName, backend.namespace), port)]]
       ELSE IF anyErr /= ""
       THEN [err |-> anyErr, cluster |-> NilCluster]
       ELSE [err |-> "",
             cluster |-> [base EXCEPT
                 !.type = "LOGICAL_DNS",
                 !.loadAssignment = createClusterLoadAssignment(
                     clusterName, backend.mcp.hostname, port),
                 !.transportSocket = [set |-> TRUE,
                                      name |-> "envoy.transport_sockets.tls",
                                      sni |-> backend.mcp.hostname]]]

\* ---- inputs of the cluster compiler ----

PortInputs == {1, 443, 8080, 65535}

\* Backends: in-cluster (service name), external (hostname), or both set
BackendSpecInputs ==
    {b \in [namespace : {"ns", "default"}, name : {"svc", "mcp"},
            mcp : [serviceName : {"", "svc", "mcp-server"},
                   hostname : {"", "api.example.com"},
                   port : PortInputs]] :
        b.mcp.serviceName /= "" \/ b.mcp.hostname /= ""}

AnyErrInputs == {"", "proto: invalid UTF-8"}

NoBackend ==
    [namespace |-> "", name |-> "",
     mcp |-> [serviceName |-> "", hostname |-> "", port |-> 0]]

NoCluster == [converted |-> FALSE, anyErr |-> "", err |-> "", cluster |-> NilCluster]

\* one run of convertBackendToCluster on the drawn Backend
ConvertBackend ==
    /\ ~clusterOut.converted
    /\ \E anyErr \in AnyErrInputs :
           clusterOut' = [converted |-> TRUE, anyErr |-> anyErr]
                             @@ convertBackendToCluster(clusterIn, anyErr)
    /\ UNCHANGED <<xdsVars, k8s, rbacVars, clusterIn, ctlVars>>

----------------------------------------------------------------------------
(* Backend resolution: pkg/translator fetchBackend *)

\* an unset optional field (nil pointer) of a reference
Nil == "<nil>"

GatewayGroupName == "gateway.networking.k8s.io"

ControllerError(reason, message) == [reason |-> reason, message |-> message]
NoError == [reason |-> "", message |-> ""]
NilBackend == [nil |-> TRUE]

\* a lister's Get: the object of that namespace and name, if it is there
ListerGet(lister, namespace, name) ==
    {o \in lister : o.namespace = namespace /\ o.name = name}

\* a ReferenceGrant of namespace ns permits the reference when one of its
\* From entries is the referrer and one of its To entries is the referent's
\* group and kind, with no name or the referent's name
isCrossNamespaceRefAllowed(from, to, ns, referenceGrantLister) ==
    \E grant \in referenceGrantLister :
        /\ grant.namespace = ns
        /\ \E f \in grant.from : f = from
        /\ \E t \in grant.to : /\ t.group = to.group
                               /\ t.kind = to.kind
                               /\ t.name \in {Nil, to.name}

\* a resolution that looks the Backend up before it checks the grant
fetchBackendLookupFirst(namespace, backendRef, backendLister, serviceLister, referenceGrantLister) ==
    LET ns == IF backendRef.namespace /= Nil THEN backendRef.namespace ELSE namespace
        from == [group |-> GatewayGroupName, kind |-> "HTTPRoute", namespace |-> namespace]
        to == [group |-> "", kind |-> "Service", name |-> backendRef.name]
        found == ListerGet(backendLister, ns, backendRef.name)
        backend == CHOOSE b \in found : TRUE
    IN IF backendRef.kind /= Nil /\ backendRef.kind /= "Backend"
       THEN [backend |-> NilBackend, lookups |-> << >>,
             err |-> ControllerError("InvalidKind",
                        "unsupported backend kind: " \o backendRef.kind)]
       ELSE IF found = {}
       THEN [backend |-> NilBackend, lookups |-> <<"backends">>,
             err |-> ControllerError("BackendNotFound",
                        "failed to get Backend " \o ns \o "/" \o backendRef.name
                            \o ": not found")]
       ELSE IF ns /= namespace
               /\ ~isCrossNamespaceRefAllowed(from, to, ns, referenceGrantLister)
       THEN [backend |-> NilBackend, lookups |-> <<"backends", "referencegrants">>,
             err |-> ControllerError("RefNotPermitted", "permission error")]
       ELSE IF backend.mcp.serviceName /= ""
               /\ ListerGet(serviceLister, ns, backend.mcp.serviceName) = {}
       THEN [backend |-> NilBackend, lookups |-> <<"backends", "services">>,
             err |-> ControllerError("BackendNotFound",
                        "failed to get Backend service " \o ns \o "/"
                            \o backend.mcp.serviceName \o ": not found")]
       ELSE [backend |-> backend, lookups |-> <<"backends">>, err |-> NoError]

\* fetchBackend: the Backend a route's backendRef names, or the reason why
\* the reference is invalid; lookups are the lister calls made, in order
fetchBackend(namespace, backendRef, backendLister, serviceLister, referenceGrantLister) ==
    LET ns == IF backendRef.namespace /= Nil THEN backendRef.namespace ELSE namespace
        from == [group |-> GatewayGroupName, kind |-> "HTTPRoute", namespace |-> namespace]
        to == [group |-> "", kind |-> "Service", name |-> backendRef.name]
        crossNs == ns /= namespace
        grantLookup == IF crossNs THEN <<"referencegrants">> ELSE << >>
        found == ListerGet(backendLister, ns, backendRef.name)
        backend == CHOOSE b \in found : TRUE
    IN IF backendRef.kind /= Nil /\ backendRef.kind /= "Backend"
       THEN [backend |-> NilBackend, lookups |-> << >>,
             err |-> ControllerError("InvalidKind",
                        "unsupported backend kind: " \o backendRef.kind)]
       ELSE IF crossNs /\ ~isCrossNamespaceRefAllowed(from, to, ns, referenceGrantLister)
       THEN [backend |-> NilBackend, lookups |-> grantLookup,
             err |-> ControllerError("RefNotPermitted", "permission error")]
       ELSE IF found = {}
       THEN [backend |-> NilBackend, lookups |-> grantLookup \o <<"backends">>,
             err |-> ControllerError("BackendNotFound",
                        "failed to get Backend " \o ns \o "/" \o backendRef.name
                            \o ": not found")]
       ELSE IF backend.mcp.serviceName /= ""
               /\ ListerGet(serviceLister, ns, backend.mcp.serviceName) = {}
       THEN [backend |-> NilBackend,
             lookups |-> grantLookup \o <<"backends", "services">>,
             err |-> ControllerError("BackendNotFound",
                        "failed to get Backend service " \o ns \o "/"
                            \o backend.mcp.serviceName \o ": not found")]
       ELSE [backend |-> backend,
             lookups |-> grantLookup \o <<"backends">>
                            \o (IF backend.mcp.serviceName /= "" THEN <<"services">>
                                ELSE << >>),
             err |-> NoError]

\* inputs: a route of namespace default referring to "mcp"; every namespace
\* has no Backend mcp, an external one or one with a Service
FetchInputs ==
    LET BackendObject(namespace, serviceName) ==
            [namespace |-> namespace, name |-> "mcp",
             mcp |-> [serviceName |-> serviceName,
                      hostname |-> IF serviceName = "" THEN "api.example.com" ELSE "",
                      port |-> 443]]
        Grant(namespace, fromNamespace, toKind, toName) ==
            [namespace |-> namespace,
             from |-> {[group |-> GatewayGroupName, kind |-> "HTTPRoute",
                        namespace |-> fromNamespace]},
             to |-> {[group |-> "", kind |-> toKind, name |-> toName]}]
    IN [namespace : {"default"},
        backendRef : [kind : {Nil, "Backend", "Service"},
                      namespace : {Nil, "default", "prod"}, name : {"mcp"}],
        backendLister :
            {d \cup p : d \in {{}, {BackendObject("default", "")},
                               {BackendObject("default", "mcp-svc")}},
                        p \in {{}, {BackendObject("prod", "")},
                               {BackendObject("prod", "mcp-svc")}}},
        serviceLister : SUBSET {[namespace |-> "default", name |-> "mcp-svc"],
                                [namespace |-> "prod", name |-> "mcp-svc"]},
        referenceGrantLister :
            { {},
              {Grant("prod", "default", "Service", Nil)},
              {Grant("prod", "default", "Service", "mcp")},
              {Grant("prod", "default", "Service", "other")},
              {Grant("prod", "staging", "Service", Nil)},
              {Grant("default", "default", "Service", Nil)},
              {Grant("prod", "default", "Secret", Nil)},
              {Grant("prod", "staging", "Service", Nil),
               Grant("prod", "default", "Service", Nil)} }]


\* one call of fetchBackend with the arguments drawn
FetchBackend ==
    /\ ~fetch.called
    /\ fetch' = [fetch EXCEPT
           !.called = TRUE,
           !.result = fetchBackend(fetch.args.namespace, fetch.args.backendRef,
                                   fetch.args.backendLister, fetch.args.serviceLister,
                                   fetch.args.referenceGrantLister)]
    /\ UNCHANGED <<coreVars, xdsRun, conns, gatewayqueue, workers, events, ensure, build>>

----------------------------------------------------------------------------
(* The distribution server's start and stop: Server.Run, getControlPlaneAddress *)

\* Go compares strings byte by byte; the interface names of the model in
\* that order
StringLess(a, b) ==
    LET NamesInOrder == <<"cni0", "docker0", "enp3s0", "eth0", "lo", "wlan0">>
        NameIndex(name) == CHOOSE i \in DOMAIN NamesInOrder : NamesInOrder[i] = name
    IN NameIndex(a) < NameIndex(b)

\* net.IP: To4, IsLinkLocalUnicast, IsLoopback
To4(ip) ==
    ip \in {"127.0.0.1", "127.0.0.2", "169.254.10.1", "172.17.0.1", "192.168.1.10",
            "10.244.0.1", "10.0.0.5", "10.0.0.6", "10.0.0.9", "10.9.9.9"}
IsLinkLocalUnicast(ip) == ip \in {"169.254.10.1", "fe80::1"}
IsLoopback(ip) == ip \in {"127.0.0.1", "127.0.0.2", "::1"}

\* sort.Slice with the less function given to it: the elements in an order
\* in which none is less than one before
RECURSIVE InsertSorted(_, _)
InsertSorted(sorted, iface) ==
    LET less(ifaceI, ifaceJ) ==
            LET nameI == ifaceI.name
                nameJ == ifaceJ.name
            IN IF nameI = "docker0" THEN TRUE
               ELSE IF nameJ = "docker0" THEN FALSE
               ELSE IF nameI = "eth0" THEN nameJ /= "docker0"
               ELSE IF nameJ = "eth0" THEN FALSE
               ELSE StringLess(nameI, nameJ)
    IN IF sorted = << >> THEN <<iface>>
       ELSE IF less(iface, Head(sorted)) THEN <<iface>> \o sorted
       ELSE <<Head(sorted)>> \o InsertSorted(Tail(sorted), iface)

RECURSIVE SortSlice(_)
SortSlice(interfaces) ==
    IF interfaces = << >> THEN << >>
    ELSE InsertSorted(SortSlice(Tail(interfaces)), Head(interfaces))

\* the addresses of one interface that the inner loop can return
UsableAddrs(iface) ==
    SelectSeq(iface.addrs,
              LAMBDA ip : To4(ip) /\ ~IsLinkLocalUnicast(ip) /\ ~IsLoopback(ip))

\* the outer loop from position i on
RECURSIVE FirstUsable(_, _)
FirstUsable(interfaces, i) ==
    IF i > Len(interfaces)
    THEN [address |-> "",
          err |-> "no suitable global unicast IPv4 address found on any active non-loopback interface"]
    ELSE IF ~interfaces[i].up \/ interfaces[i].loopback
    THEN FirstUsable(interfaces, i + 1)
    ELSE IF UsableAddrs(interfaces[i]) = << >>
    THEN FirstUsable(interfaces, i + 1)
    ELSE [address |-> Head(UsableAddrs(interfaces[i])), err |-> ""]

\* an address search that keeps the order of enumeration
getControlPlaneAddressUnsorted(interfaces, interfacesErr) ==
    IF interfacesErr /= "" THEN [address |-> "", err |-> interfacesErr]
    ELSE FirstUsable(interfaces, 1)

\* getControlPlaneAddress, of what net.Interfaces returned
getControlPlaneAddress(interfaces, interfacesErr) ==
    IF interfacesErr /= "" THEN [address |-> "", err |-> interfacesErr]
    ELSE FirstUsable(SortSlice(interfaces), 1)

\* inputs: per name an interface that is usable, one that is down and one
\* without usable address; the loopback interface, also with a global address
MaxInterfaces == 3
InterfaceLists ==
    LET GlobalAddr(name) ==
            CASE name = "cni0" -> "10.244.0.1"
              [] name = "docker0" -> "172.17.0.1"
              [] name = "enp3s0" -> "10.0.0.5"
              [] name = "eth0" -> "192.168.1.10"
              [] name = "wlan0" -> "10.0.0.6"
        InterfaceInputs ==
            UNION {{[name |-> n, up |-> TRUE, loopback |-> FALSE,
                     addrs |-> <<"fe80::1", GlobalAddr(n), "10.9.9.9">>],
                    [name |-> n, up |-> FALSE, loopback |-> FALSE,
                     addrs |-> <<GlobalAddr(n)>>],
                    [name |-> n, up |-> TRUE, loopback |-> FALSE,
                     addrs |-> <<"127.0.0.2", "169.254.10.1", "fe80::1">>]}
                   : n \in {"cni0", "docker0", "enp3s0", "eth0", "wlan0"}}
            \cup {[name |-> "lo", up |-> TRUE, loopback |-> TRUE,
                   addrs |-> <<"127.0.0.1">>],
                  [name |-> "lo", up |-> TRUE, loopback |-> TRUE,
                   addrs |-> <<"10.0.0.9">>]}
    IN {list \in UNION {[1..k -> InterfaceInputs] : k \in 0..MaxInterfaces} :
           \A i, j \in DOMAIN list : i /= j => list[i].name /= list[j].name}

\* the connections of proxies to the listener
NumConns == 2
Conns == 1..NumConns

NewRun ==
    [interfaces |-> << >>, interfacesErr |-> "", state |-> "new", err |-> "",
     Address |-> "", Port |-> 0, listener |-> "none", ctx |-> "live"]
NoConns == [c \in Conns |-> "none"]

\* Server.Run up to its return: the address, the listener, the two goroutines
Run ==
    /\ xdsRun.state = "new"
    /\ LET address == getControlPlaneAddress(xdsRun.interfaces, xdsRun.interfacesErr)
       IN IF address.err /= ""
          THEN xdsRun' = [xdsRun EXCEPT !.state = "returned", !.err = address.err]
          ELSE \E listenErr \in {"", "listen tcp: bind: cannot assign requested address"},
                  port \in {32768, 45001} :
                   IF listenErr /= ""
                   THEN xdsRun' = [xdsRun EXCEPT !.state = "returned", !.err = listenErr]
                   ELSE xdsRun' = [xdsRun EXCEPT !.state = "returned",
                                                 !.Address = address.address,
                                                 !.Port = port,
                                                 !.listener = "serving"]
    /\ UNCHANGED <<coreVars, fetch, conns, gatewayqueue, workers, events, ensure, build>>

\* grpcServer.Serve accepts a connection
Accept(c) ==
    /\ xdsRun.listener = "serving"
    /\ conns[c] = "none"
    /\ conns' = [conns EXCEPT ![c] = "idle"]
    /\ UNCHANGED <<coreVars, fetch, xdsRun, gatewayqueue, workers, events, ensure, build>>

\* a proxy opens a discovery stream on its connection
StreamOpen(c) ==
    /\ conns[c] = "idle"
    /\ conns' = [conns EXCEPT ![c] = "streaming"]
    /\ UNCHANGED <<coreVars, fetch, xdsRun, gatewayqueue, workers, events, ensure, build>>

\* the stream ends by itself
StreamFinish(c) ==
    /\ conns[c] = "streaming"
    /\ conns' = [conns EXCEPT ![c] = "idle"]
    /\ UNCHANGED <<coreVars, fetch, xdsRun, gatewayqueue, workers, events, ensure, build>>

\* the proxy closes its connection
ConnClose(c) ==
    /\ conns[c] = "idle"
    /\ conns' = [conns EXCEPT ![c] = "closed"]
    /\ UNCHANGED <<coreVars, fetch, xdsRun, gatewayqueue, workers, events, ensure, build>>

\* the context given to Run is cancelled
CtxCancel ==
    /\ xdsRun.ctx = "live"
    /\ xdsRun' = [xdsRun EXCEPT !.ctx = "cancelled"]
    /\ UNCHANGED <<coreVars, fetch, conns, gatewayqueue, workers, events, ensure, build>>

\* the second goroutine of Run: grpcServer.Stop closes the listener and
\* every connection at once, cancelling the streams that are open
Stop ==
    /\ xdsRun.ctx = "cancelled"
    /\ xdsRun.listener = "serving"
    /\ xdsRun' = [xdsRun EXCEPT !.listener = "stopped"]
    /\ conns' = [c \in Conns |->
                    CASE conns[c] = "streaming" -> "cut"
                      [] conns[c] = "idle" -> "closed"
                      [] OTHER -> conns[c]]
    /\ UNCHANGED <<coreVars, fetch, gatewayqueue, workers, events, ensure, build>>

----------------------------------------------------------------------------
(* The controller: event handlers, the gateway work queue, the workers *)

(***************************************************************************)
(* c.gatewayqueue is client-go's rate limiting work queue, modelled by     *)
(* what its calls do:                                                      *)
(*   Add(item) does nothing when the queue is shutting down or the item is *)
(*     already dirty; otherwise it marks the item dirty and, unless the    *)
(*     item is being processed, appends it to the queue;                   *)
(*   Get blocks until the queue holds an item or is shut down; it takes    *)
(*     the head, marks it processing and no longer dirty; it reports       *)
(*     shutdown when the queue is empty and shutting down;                 *)
(*   Done(item) ends the processing and appends the item if it became      *)
(*     dirty in the meantime;                                              *)
(*   AddRateLimited(item) counts one more requeue of the item and Adds it  *)
(*     after the limiter's delay; Forget(item) resets that count.          *)
(***************************************************************************)
NumWorkers == 2
MaxEvents == 2
MaxRequeues == 1
Workers == 1..NumWorkers

Key(namespace, name) == namespace \o "/" \o name

\* names a key is made of; the last is no object name, it holds a slash
PlainNames == {"gw-a", "gw-b"}
KeyNamespaces == {"default", "prod"}
\* cache.SplitMetaNamespaceKey: one part is a name, two are namespace and
\* name, more are an error
SplitMetaNamespaceKey(key) ==
    IF \E ns \in KeyNamespaces, n \in PlainNames : key = Key(ns, n)
    THEN LET ns == CHOOSE ns \in KeyNamespaces : \E n \in PlainNames : key = Key(ns, n)
             n == CHOOSE n \in PlainNames : key = Key(ns, n)
         IN [namespace |-> ns, name |-> n, err |-> ""]
    ELSE IF key \in PlainNames
    THEN [namespace |-> "", name |-> key, err |-> ""]
    ELSE [namespace |-> "", name |-> "", err |-> "unexpected key format: " \o key]

EmptyQueue ==
    [queue |-> << >>, dirty |-> {}, processing |-> {}, shuttingDown |-> FALSE,
     requeues |-> [k \in {Key(ns, n) : ns \in KeyNamespaces,
                                     n \in PlainNames \cup {"gw-a/status"}} |-> 0],
     waiting |-> {}]

QueueAdd(q, item) ==
    IF q.shuttingDown \/ item \in q.dirty THEN q
    ELSE IF item \in q.processing THEN [q EXCEPT !.dirty = @ \cup {item}]
    ELSE [q EXCEPT !.dirty = @ \cup {item}, !.queue = Append(@, item)]

RECURSIVE QueueAddAll(_, _)
QueueAddAll(q, items) ==
    IF items = << >> THEN q
    ELSE QueueAddAll(QueueAdd(q, Head(items)), Tail(items))

QueueDone(q, item) ==
    [q EXCEPT !.processing = @ \ {item},
              !.queue = IF item \in q.dirty THEN Append(@, item) ELSE @]

QueueAddRateLimited(q, item) ==
    [q EXCEPT !.requeues[item] = @ + 1,
              !.waiting = IF q.shuttingDown THEN @ ELSE @ \cup {item}]


\* syncHandler: nil for a key that cannot be split and for a Gateway that
\* is not found, the lister's error otherwise, nil after the reconciliation
\* that is still to be written
syncHandler(key, gatewayLister, listerErr) ==
    LET split == SplitMetaNamespaceKey(key)
    IN IF split.err /= "" THEN ""
       ELSE IF listerErr /= "" THEN listerErr
       ELSE IF key \notin gatewayLister THEN ""
       ELSE ""

\* ParentReference inputs: the same Gateway named in two ways, a Gateway of
\* another namespace, references of another group and of another kind, and
\* a name that holds a slash
ParentRef(group, kind, namespace, name) ==
    [group |-> group, kind |-> kind, namespace |-> namespace, name |-> name]
MaxParentRefs == 2
ParentRefLists ==
    LET ParentRefInputs ==
            {ParentRef(Nil, Nil, Nil, "gw-a"),
             ParentRef(GatewayGroupName, "Gateway", "default", "gw-a"),
             ParentRef(Nil, Nil, "prod", "gw-a"),
             ParentRef("example.io", "Gateway", Nil, "gw-b"),
             ParentRef(Nil, "Service", Nil, "gw-b"),
             ParentRef(Nil, Nil, Nil, "gw-b"),
             ParentRef(Nil, Nil, Nil, "gw-a/status")}
    IN UNION {[1..k -> ParentRefInputs] : k \in 0..MaxParentRefs}

\* the keys enqueueGatewaysForHTTPRoute collects in its map
gatewaysToEnqueue(references, localNamespace) ==
    {Key(IF references[i].namespace /= Nil THEN references[i].namespace
         ELSE localNamespace,
         references[i].name) :
        i \in {j \in DOMAIN references :
                 ~(\/ references[j].group /= Nil /\ references[j].group /= GatewayGroupName
                   \/ references[j].kind /= Nil /\ references[j].kind /= "Gateway")}}

\* an update handler that looks at the new route only
EventReferencesNewOnly(type, oldRefs, newRefs) == newRefs

\* the references an event of an HTTPRoute hands to enqueueGatewaysForHTTPRoute
EventReferences(type, oldRefs, newRefs) ==
    IF type = "update" THEN oldRefs \o newRefs ELSE newRefs

NoEvents ==
    [count |-> 0, last |-> [kind |-> "", type |-> "", adds |-> << >>],
     changed |-> {}, gateways |-> {},
     route |-> [type |-> "", old |-> << >>, new |-> << >>]]
IdleWorkers ==
    [w \in Workers |->
        [pc |-> "idle", key |-> "", calls |-> << >>, syncErr |-> "", returned |-> ""]]


\* the Gateway informer's AddFunc, UpdateFunc, DeleteFunc
GatewayEvent(type, gw) ==
    LET key == Key(gw.namespace, gw.name)
    IN /\ events.count < MaxEvents
       /\ type = "add" => key \notin events.gateways
       /\ type /= "add" => key \in events.gateways
       /\ gatewayqueue' = QueueAdd(gatewayqueue, key)
       /\ events' = [events EXCEPT
              !.count = @ + 1,
              !.gateways = IF type = "delete" THEN @ \ {key} ELSE @ \cup {key},
              !.changed = @ \cup {key},
              !.last = [kind |-> "Gateway", type |-> type, adds |-> <<key>>]]
       /\ UNCHANGED <<coreVars, fetch, xdsRun, conns, workers, ensure, build>>

\* addHTTPRoute, updateHTTPRoute, deleteHTTPRoute of a route of namespace
\* default
HTTPRouteEvent(type, oldRefs, newRefs) ==
    LET keys == gatewaysToEnqueue(EventReferences(type, oldRefs, newRefs), "default")
        \* the orders in which ranging over the map can visit its keys
        Orders == {order \in [1..Cardinality(keys) -> keys] :
                      \A i, j \in DOMAIN order : i /= j => order[i] /= order[j]}
    IN /\ events.count < MaxEvents
       /\ \E order \in Orders :
              /\ gatewayqueue' = QueueAddAll(gatewayqueue, order)
              /\ events' = [events EXCEPT
                     !.count = @ + 1,
                     !.changed = @ \cup (keys \cap {Key(g.namespace, g.name) : g \in Gateways}),
                     !.route = [type |-> type, old |-> oldRefs, new |-> newRefs],
                     !.last = [kind |-> "HTTPRoute", type |-> type, adds |-> order]]
       /\ UNCHANGED <<coreVars, fetch, xdsRun, conns, workers, ensure, build>>

\* addBackend, updateBackend, deleteBackend: enqueueBackend is still to be
\* written. The change concerns Gateway default/gw-a: route default/r1 sends
\* to Backend default/mcp and is attached to that Gateway
BackendEvent(type) ==
    /\ events.count < MaxEvents
    /\ events' = [events EXCEPT
           !.count = @ + 1,
           !.changed = @ \cup {Key("default", "gw-a")},
           !.last = [kind |-> "Backend", type |-> type, adds |-> << >>]]
    /\ UNCHANGED <<coreVars, fetch, xdsRun, conns, gatewayqueue, workers, ensure, build>>

\* addAccessPolicy, updateAccessPolicy, deleteAccessPolicy:
\* enqueueAccessPolicy is still to be written
AccessPolicyEvent(type) ==
    /\ events.count < MaxEvents
    /\ events' = [events EXCEPT
           !.count = @ + 1,
           !.changed = @ \cup {Key("default", "gw-a")},
           !.last = [kind |-> "AccessPolicy", type |-> type, adds |-> << >>]]
    /\ UNCHANGED <<coreVars, fetch, xdsRun, conns, gatewayqueue, workers, ensure, build>>

\* processNextWorkItem up to the return of Get with an item
Get(w) ==
    /\ workers[w].pc = "idle"
    /\ gatewayqueue.queue /= << >>
    /\ LET obj == Head(gatewayqueue.queue)
       IN /\ gatewayqueue' = [gatewayqueue EXCEPT !.queue = Tail(@),
                                                  !.processing = @ \cup {obj},
                                                  !.dirty = @ \ {obj}]
          /\ workers' = [workers EXCEPT ![w] =
                 [pc |-> "sync", key |-> obj, calls |-> <<"Get">>, syncErr |-> "",
                  returned |-> ""]]
    /\ UNCHANGED <<coreVars, fetch, xdsRun, conns, events, ensure, build>>

\* a step of processNextWorkItem that forgets the deferred Done when the
\* sync fails
AfterSyncWithoutDoneOnError(q, obj, err) ==
    IF err /= ""
    THEN [queue |-> QueueAddRateLimited(q, obj),
          calls |-> <<"syncHandler", "AddRateLimited">>, returned |-> "true"]
    ELSE [queue |-> QueueDone([q EXCEPT !.requeues[obj] = 0], obj),
          calls |-> <<"syncHandler", "Forget", "Done">>, returned |-> "true"]

\* processNextWorkItem from syncHandler to its return: AddRateLimited on an
\* error, Forget otherwise, then the deferred Done
AfterSync(q, obj, err) ==
    IF err /= ""
    THEN [queue |-> QueueDone(QueueAddRateLimited(q, obj), obj),
          calls |-> <<"syncHandler", "AddRateLimited", "Done">>, returned |-> "true"]
    ELSE [queue |-> QueueDone([q EXCEPT !.requeues[obj] = 0], obj),
          calls |-> <<"syncHandler", "Forget", "Done">>, returned |-> "true"]

Sync(w) ==
    /\ workers[w].pc = "sync"
    /\ \E listerErr \in {"", "informer cache unavailable"} :
           LET obj == workers[w].key
               err == syncHandler(obj, events.gateways, listerErr)
               after == AfterSync(gatewayqueue, obj, err)
           IN /\ err /= "" => gatewayqueue.requeues[obj] < MaxRequeues
              /\ gatewayqueue' = after.queue
              /\ workers' = [workers EXCEPT ![w] =
                     [pc |-> "idle", key |-> obj, calls |-> @.calls \o after.calls,
                      syncErr |-> err, returned |-> after.returned]]
    /\ UNCHANGED <<coreVars, fetch, xdsRun, conns, events, ensure, build>>

\* processNextWorkItem on a queue that is shut down and empty: Get reports
\* shutdown, the call returns false and runWorker ends
GetShutdown(w) ==
    /\ workers[w].pc = "idle"
    /\ gatewayqueue.queue = << >>
    /\ gatewayqueue.shuttingDown
    /\ workers' = [workers EXCEPT ![w] =
           [pc |-> "stopped", key |-> "", calls |-> <<"Get">>, syncErr |-> "",
            returned |-> "false"]]
    /\ UNCHANGED <<coreVars, fetch, xdsRun, conns, gatewayqueue, events, ensure, build>>

\* the rate limiter's delay of an item has passed
DelayElapsed(item) ==
    /\ item \in gatewayqueue.waiting
    /\ gatewayqueue' = QueueAdd([gatewayqueue EXCEPT !.waiting = @ \ {item}], item)
    /\ UNCHANGED <<coreVars, fetch, xdsRun, conns, workers, events, ensure, build>>

\* Controller.Run returns after its context is done: the deferred ShutDown
ShutDown ==
    /\ ~gatewayqueue.shuttingDown
    /\ gatewayqueue' = [gatewayqueue EXCEPT !.shuttingDown = TRUE]
    /\ UNCHANGED <<coreVars, fetch, xdsRun, conns, workers, events, ensure, build>>

----------------------------------------------------------------------------
(* EnsureProxy step by step: ensureSA, ensureConfigMap, ensureDeployment, ensureService *)

StepResult(objects, calls, created, err) ==
    [objects |-> objects, calls |-> calls, created |-> created, err |-> err]

\* a step that creates its object without looking whether it exists
ensureResourceCreateAlways(kind, objects, fail) ==
    IF kind = "ConfigMap" /\ fail = "render"
    THEN StepResult(objects, << >>, {}, "failed to generate envoy bootstrap config")
    ELSE IF fail = "create"
    THEN StepResult(objects, <<"create " \o kind>>, {}, "failed to create envoy " \o kind)
    ELSE IF kind \in Waited /\ fail = "wait"
    THEN StepResult(objects \cup {kind}, <<"create " \o kind, "wait " \o kind>>,
                    {kind}, "waiting for envoy " \o kind)
    ELSE StepResult(objects \cup {kind},
                    <<"create " \o kind>>
                        \o (IF kind \in Waited THEN <<"wait " \o kind>> ELSE << >>),
                    {kind}, "")

\* ensureSA, ensureConfigMap, ensureDeployment, ensureService: Get the
\* object named by the node id, Create it when the Get reports NotFound,
\* wait for a Deployment and a Service
ensureResource(kind, objects, fail) ==
    IF kind = "ConfigMap" /\ fail = "render"
    THEN StepResult(objects, << >>, {}, "failed to generate envoy bootstrap config")
    ELSE IF fail = "get"
    THEN StepResult(objects, <<"get " \o kind>>, {}, "failed to get envoy " \o kind)
    ELSE IF kind \notin objects /\ fail = "create"
    THEN StepResult(objects, <<"get " \o kind, "create " \o kind>>, {},
                    "failed to create envoy " \o kind)
    ELSE LET found == kind \in objects
             calls == <<"get " \o kind>>
                        \o (IF found THEN << >> ELSE <<"create " \o kind>>)
                        \o (IF kind \in Waited THEN <<"wait " \o kind>> ELSE << >>)
             created == IF found THEN {} ELSE {kind}
         IN StepResult(objects \cup {kind}, calls, created,
                       IF kind \in Waited /\ fail = "wait"
                       THEN "waiting for envoy " \o kind ELSE "")

\* the body of EnsureProxy from step i on; step failAt, if any, fails
RECURSIVE ensureFrom(_, _, _, _)
ensureFrom(i, objects, failAt, fail) ==
    IF i > Len(EnsureOrder) THEN StepResult(objects, << >>, {}, "")
    ELSE LET step == ensureResource(EnsureOrder[i], objects,
                                    IF i = failAt THEN fail ELSE "")
         IN IF step.err /= "" THEN step
            ELSE LET rest == ensureFrom(i + 1, step.objects, failAt, fail)
                 IN StepResult(rest.objects, step.calls \o rest.calls,
                               step.created \cup rest.created, rest.err)

NoEnsure ==
    [called |-> FALSE, node |-> "", before |-> {}, second |-> FALSE, calls |-> << >>,
     created |-> {}, nodeID |-> "", err |-> ""]

\* EnsureProxy(ctx, client, gw, xdsServer) with the calls it makes; step
\* failAt, if any, fails: at rendering the ConfigMap's bootstrap, at the Get
\* with an error other than NotFound, at the Create or at the wait
EnsureProxySteps(gw) ==
    LET nodeID == proxyName(gw.namespace, gw.name)
    IN \E failAt \in 0..Len(EnsureOrder), fail \in {"render", "get", "create", "wait"} :
         LET result == ensureFrom(1, k8s[nodeID], failAt, fail)
         IN /\ failAt > 0 => result.err /= ""
            /\ failAt = 0 => fail = "get"
            /\ k8s' = [k8s EXCEPT ![nodeID] = result.objects]
            /\ last' = [op |-> "ensure", node |-> nodeID, err |-> result.err]
            /\ ensure' = [called |-> TRUE, node |-> nodeID, before |-> k8s[nodeID],
                          second |-> last = [op |-> "ensure", node |-> nodeID, err |-> ""],
                          calls |-> result.calls, created |-> result.created,
                          nodeID |-> IF result.err = "" THEN nodeID ELSE "",
                          err |-> result.err]
            /\ UNCHANGED <<version, cache, call, watch, tokens, commits, rbacVars,
                           clusterVars, fetch, xdsRun, conns, gatewayqueue, workers, events, build>>

----------------------------------------------------------------------------
(* The resources of several Backends: buildClustersFromBackends *)

\* buildClustersFromBackends: the clusters in the order of the backends,
\* or the first error and no cluster; anyErrs[i] is what anypb.New answers
\* for backend i
RECURSIVE buildClustersFromBackends(_, _)
buildClustersFromBackends(backends, anyErrs) ==
    IF backends = << >> THEN [clusters |-> << >>, err |-> ""]
    ELSE LET converted == convertBackendToCluster(Head(backends), Head(anyErrs))
             rest == buildClustersFromBackends(Tail(backends), Tail(anyErrs))
         IN IF converted.err /= "" THEN [clusters |-> << >>, err |-> converted.err]
            ELSE IF rest.err /= "" THEN rest
            ELSE [clusters |-> <<converted.cluster>> \o rest.clusters, err |-> ""]

\* inputs: Backends of the namespaces team and team-a, named mcp and a-mcp,
\* in the cluster or external
MaxBackends == 2
BackendLists ==
    LET NamedBackendInputs ==
            {[namespace |-> ns, name |-> n,
              mcp |-> [serviceName |-> svc,
                       hostname |-> IF svc = "" THEN "api.example.com" ELSE "",
                       port |-> 443]] :
                ns \in {"team", "team-a"}, n \in {"mcp", "a-mcp"},
                svc \in {"", "mcp-server"}}
    IN {list \in UNION {[1..k -> NamedBackendInputs] : k \in 1..MaxBackends} :
           \A i, j \in DOMAIN list :
               i /= j => <<list[i].namespace, list[i].name>>
                           /= <<list[j].namespace, list[j].name>>}

NoBuild == [called |-> FALSE, backends |-> << >>, clusters |-> << >>, err |-> "",
            rbac |-> << >>]

\* the compilers run on the Backends of one snapshot: the clusters, and the
\* RBAC configuration of each Backend
CompileBackends ==
    /\ ~build.called
    /\ \E anyErrs \in [DOMAIN build.backends -> AnyErrInputs] :
           LET built == buildClustersFromBackends(build.backends, anyErrs)
               \* the lister of a cluster in which every Backend drawn has its
               \* own policy with one rule
               PolicyPerBackend(backends) ==
                   [err |-> "",
                    items |-> [i \in DOMAIN backends |->
                                  [namespace |-> backends[i].namespace, name |-> "allow-agents",
                                   targetRef |-> [kind |-> "Backend", name |-> backends[i].name],
                                   action |-> "ALLOW",
                                   rules |-> <<[source |-> [identities |-> <<IdA>>,
                                                            serviceAccounts |-> << >>],
                                                tools |-> <<"add">>]>>]]]
           IN build' = [build EXCEPT
                  !.called = TRUE,
                  !.clusters = built.clusters,
                  !.err = built.err,
                  !.rbac = [i \in DOMAIN build.backends |->
                               rbacConfigFromAuthPolicy(PolicyPerBackend(build.backends),
                                                        build.backends[i])]]
    /\ UNCHANGED <<coreVars, fetch, xdsRun, conns, gatewayqueue, workers, events, ensure>>

----------------------------------------------------------------------------
(* Specifications *)

\* nothing has been called yet
CoreIdle ==
    /\ version = 0
    /\ cache = [n \in Nodes |-> NoSnapshot]
    /\ call = [c \in Callers |-> IdleCall]
    /\ watch = [w \in Watchers |-> NoWatch]
    /\ tokens = << >>
    /\ commits = [n \in Nodes |-> << >>]
    /\ last = NoOp
    /\ k8s = [n \in Nodes |-> {}]
    /\ rbacIn = NoRBACInput
    /\ rbacOut = NoRBAC
    /\ clusterIn = NoBackend
    /\ clusterOut = NoCluster

CtlIdle ==
    /\ fetch = [called |-> FALSE]
    /\ xdsRun = NewRun
    /\ conns = NoConns
    /\ gatewayqueue = EmptyQueue
    /\ workers = IdleWorkers
    /\ events = NoEvents
    /\ ensure = NoEnsure
    /\ build = NoBuild

\* NewServer: empty cache, counter 0
Init ==
    /\ version = 0
    /\ cache = [n \in Nodes |-> NoSnapshot]
    /\ call = [c \in Callers |-> IdleCall]
    /\ watch = [w \in Watchers |-> NoWatch]
    /\ tokens = << >>
    /\ commits = [n \in Nodes |-> << >>]
    /\ last = NoOp
    /\ k8s = [n \in Nodes |-> {}]
    /\ rbacIn = NoRBACInput
    /\ rbacOut = NoRBAC
    /\ clusterIn = NoBackend
    /\ clusterOut = NoCluster
    /\ CtlIdle

WatchNext ==
    \/ \E w \in Watchers, n \in Nodes, t \in KnownTypes : Connect(w, n, t)
    \/ \E w \in Watchers : CreateWatch(w)
    \/ \E w \in Watchers : Disconnect(w)

\* UpdateXDSServer called from any number of goroutines at once
Next ==
    \/ \E c \in Callers, n \in Nodes, r \in ResourceInputs : UpdateXDSServer_Add(c, n, r)
    \/ \E c \in Callers : UpdateXDSServer_Load(c)
    \/ \E c \in Callers : UpdateXDSServer_SetSnapshot(c)
    \/ WatchNext

Spec == Init /\ [][Next]_vars

\* UpdateXDSServer calls executed one after another: a single caller
NextSeq ==
    \/ \E n \in Nodes, r \in ResourceInputs : UpdateXDSServer_Add(1, n, r)
    \/ UpdateXDSServer_Load(1)
    \/ UpdateXDSServer_SetSnapshot(1)
    \/ WatchNext

SpecSeq == Init /\ [][NextSeq]_vars

\* proxies created and deleted while snapshots are published, one call at a time
NextProxy ==
    \/ \E g \in Gateways : EnsureProxy(g)
    \/ \E g \in Gateways : DeleteProxy(g.namespace, g.name)
    \/ \E n \in Nodes, r \in ResourceInputs : UpdateXDSServer_Add(1, n, r)
    \/ UpdateXDSServer_Load(1)
    \/ UpdateXDSServer_SetSnapshot(1)

SpecProxy == Init /\ [][NextProxy]_vars

\* the RBAC compiler run once on every input drawn
InitRBAC ==
    /\ version = 0
    /\ cache = [n \in Nodes |-> NoSnapshot]
    /\ call = [c \in Callers |-> IdleCall]
    /\ watch = [w \in Watchers |-> NoWatch]
    /\ tokens = << >>
    /\ commits = [n \in Nodes |-> << >>]
    /\ last = NoOp
    /\ k8s = [n \in Nodes |-> {}]
    /\ rbacIn \in [backend : BackendInputs, lister : ListerInputs]
    /\ rbacOut = NoRBAC
    /\ clusterIn = NoBackend
    /\ clusterOut = NoCluster
    /\ CtlIdle

SpecRBAC == InitRBAC /\ [][Compile]_vars

\* the cluster compiler run once on every Backend drawn
InitCluster ==
    /\ version = 0
    /\ cache = [n \in Nodes |-> NoSnapshot]
    /\ call = [c \in Callers |-> IdleCall]
    /\ watch = [w \in Watchers |-> NoWatch]
    /\ tokens = << >>
    /\ commits = [n \in Nodes |-> << >>]
    /\ last = NoOp
    /\ k8s = [n \in Nodes |-> {}]
    /\ rbacIn = NoRBACInput
    /\ rbacOut = NoRBAC
    /\ clusterIn \in BackendSpecInputs
    /\ clusterOut = NoCluster
    /\ CtlIdle

SpecCluster == InitCluster /\ [][ConvertBackend]_vars

\* fetchBackend called once on every combination of reference and listers
InitFetch ==
    /\ CoreIdle
    /\ xdsRun = NewRun
    /\ conns = NoConns
    /\ gatewayqueue = EmptyQueue
    /\ workers = IdleWorkers
    /\ events = NoEvents
    /\ ensure = NoEnsure
    /\ build = NoBuild
    /\ fetch \in [called : {FALSE}, args : FetchInputs,
                  result : {[backend |-> NilBackend, lookups |-> << >>, err |-> NoError]}]

SpecFetch == InitFetch /\ [][FetchBackend]_vars

\* Run called once on every enumeration of interfaces
InitAddress ==
    /\ CoreIdle
    /\ fetch = [called |-> FALSE]
    /\ gatewayqueue = EmptyQueue
    /\ workers = IdleWorkers
    /\ events = NoEvents
    /\ ensure = NoEnsure
    /\ build = NoBuild
    /\ xdsRun \in {[NewRun EXCEPT !.interfaces = list] : list \in InterfaceLists}
                  \cup {[NewRun EXCEPT !.interfacesErr = e] :
                            e \in {"route ip+net: netlinkrib: too many open files"}}
    /\ conns = NoConns

SpecAddress == InitAddress /\ [][Run]_vars

\* the server started on a host with one usable interface or none, its
\* connections and its shutdown
InitRun ==
    /\ CoreIdle
    /\ fetch = [called |-> FALSE]
    /\ gatewayqueue = EmptyQueue
    /\ workers = IdleWorkers
    /\ events = NoEvents
    /\ ensure = NoEnsure
    /\ build = NoBuild
    /\ xdsRun \in {[NewRun EXCEPT !.interfaces = list] :
                      list \in {l \in InterfaceLists : Len(l) <= 1}}
    /\ conns = NoConns

NextRun ==
    \/ Run
    \/ \E c \in Conns : Accept(c)
    \/ \E c \in Conns : StreamOpen(c)
    \/ \E c \in Conns : StreamFinish(c)
    \/ \E c \in Conns : ConnClose(c)
    \/ CtxCancel
    \/ Stop

SpecRun == InitRun /\ [][NextRun]_vars

\* the controller with its workers: events of Gateways, of routes with few
\* parent references, of the Backend and of its policy
InitController ==
    /\ CoreIdle
    /\ fetch = [called |-> FALSE]
    /\ xdsRun = NewRun
    /\ conns = NoConns
    /\ ensure = NoEnsure
    /\ build = NoBuild
    /\ gatewayqueue = EmptyQueue
    /\ workers = IdleWorkers
    /\ events = NoEvents

NextController ==
    \/ \E type \in {"add", "update", "delete"}, gw \in Gateways : GatewayEvent(type, gw)
    \/ \E type \in {"add", "update", "delete"},
          oldRefs, newRefs \in
              {<<ParentRef(Nil, Nil, Nil, "gw-a")>>,
               <<ParentRef(Nil, Nil, Nil, "gw-b"), ParentRef(Nil, Nil, Nil, "gw-a/status")>>} :
           /\ type /= "update" => oldRefs = newRefs
           /\ HTTPRouteEvent(type, oldRefs, newRefs)
    \/ \E type \in {"add", "update", "delete"} : BackendEvent(type)
    \/ \E type \in {"add", "update", "delete"} : AccessPolicyEvent(type)
    \/ \E w \in Workers : Get(w)
    \/ \E w \in Workers : Sync(w)
    \/ \E w \in Workers : GetShutdown(w)
    \/ \E item \in DOMAIN gatewayqueue.requeues : DelayElapsed(item)
    \/ ShutDown

SpecController == InitController /\ [][NextController]_vars

\* one event of an HTTPRoute with every pair of parent reference lists
InitRoute ==
    /\ CoreIdle
    /\ fetch = [called |-> FALSE]
    /\ xdsRun = NewRun
    /\ conns = NoConns
    /\ ensure = NoEnsure
    /\ build = NoBuild
    /\ gatewayqueue = EmptyQueue
    /\ workers = IdleWorkers
    /\ events \in {[NoEvents EXCEPT !.route = [type |-> type, old |-> oldRefs, new |-> newRefs]] :
                      type \in {"update"}, oldRefs \in ParentRefLists,
                      newRefs \in ParentRefLists}
                  \cup {[NoEvents EXCEPT !.route = [type |-> type, old |-> refs, new |-> refs]] :
                            type \in {"add", "delete"}, refs \in ParentRefLists}

HandleHTTPRouteEvent ==
    /\ events.count = 0
    /\ HTTPRouteEvent(events.route.type, events.route.old, events.route.new)

SpecRoute == InitRoute /\ [][HandleHTTPRouteEvent]_vars

\* proxies ensured and deleted, call by call
NextEnsure ==
    \/ \E g \in Gateways : EnsureProxySteps(g)
    \/ \E g \in Gateways : DeleteProxy(g.namespace, g.name)

SpecEnsure == Init /\ [][NextEnsure]_vars

\* the compilers run once on every list of Backends drawn
InitBuild ==
    /\ CoreIdle
    /\ fetch = [called |-> FALSE]
    /\ xdsRun = NewRun
    /\ conns = NoConns
    /\ gatewayqueue = EmptyQueue
    /\ workers = IdleWorkers
    /\ events = NoEvents
    /\ ensure = NoEnsure
    /\ build \in {[NoBuild EXCEPT !.backends = list] : list \in BackendLists}

SpecBuild == InitBuild /\ [][CompileBackends]_vars

----------------------------------------------------------------------------
(* Claims about the distribution server *)

StrictlyIncreasing(seq) == \A i, j \in DOMAIN seq : i < j => seq[i] < seq[j]

\* the step in which caller c's SetSnapshot runs and UpdateXDSServer returns
Commits(c) == call[c].pc = "set" /\ call'[c].pc = "idle"

\* the step in which caller c's UpdateXDSServer returns
Returns(c) == call[c].pc \in {"load", "set"} /\ call'[c].pc = "idle"

\* C1: concurrent invocations of UpdateXDSServer never build their snapshots
\* with the same version token: the versions read are pairwise distinct.
C1_DistinctVersionTokens ==
    \A i, j \in DOMAIN tokens :
        i /= j => VersionToken(tokens[i]) /= VersionToken(tokens[j])

\* C2: with calls executed one after another, the versions committed for an
\* instance are strictly increasing, and every publish (failed ones included,
\* whatever the instance) reads a version greater than all read before it.
C2_SequentialVersionsIncrease ==
    /\ \A n \in Nodes : StrictlyIncreasing(commits[n])
    /\ StrictlyIncreasing(tokens)
    /\ \A n \in Nodes : \A i \in DOMAIN commits[n] :
           \E k \in DOMAIN tokens : tokens[k] = commits[n][i]

\* two commits for one instance with a failed publish or a publish for the
\* other instance in between
C2_Witness ==
    \E n \in Nodes : /\ Len(commits[n]) >= 2
                     /\ commits[n][2] > commits[n][1] + 1

\* C3: what the cache serves for an instance is always one whole snapshot:
\* every resource type carries the same version, and the entry is the
\* snapshot built from one resource set under one version that was read.
C3_SnapshotWhole ==
    \A n \in Nodes :
        cache[n].present =>
            /\ \A t1, t2 \in KnownTypes :
                   cache[n].res[t1].version = cache[n].res[t2].version
            /\ \E i \in DOMAIN tokens, r \in ResourceInputs :
                   /\ ~NewSnapshot(VersionToken(tokens[i]), r).err
                   /\ cache[n] = NewSnapshot(VersionToken(tokens[i]), r).snap

\* an instance whose snapshot was replaced by one with other resources while
\* a proxy connection watches it
C3_Witness ==
    \E n \in Nodes, w \in Watchers :
        /\ Len(commits[n]) >= 2
        /\ watch[w].node = n /\ watch[w].phase /= "off"
        /\ watch[w].recv /= NoItems
        /\ watch[w].recv /= cache[n].res[watch[w].type].items

\* C4: a snapshot committed for X (UpdateXDSServer returns nil) reaches every
\* connection that holds an open watch on X.
C4_CommitIsPushed ==
    [][\A c \in Callers :
           (Commits(c) /\ last'.err = "") =>
               \A w \in Watchers :
                   (watch[w].phase = "open" /\ watch[w].node = call[c].nodeid) =>
                       watch'[w].recv = call[c].snapshot.res[watch[w].type].items]_vars

\* C5: an UpdateXDSServer call that returns an error leaves the instance's
\* cache entry as it was.
C5_ErrorLeavesCacheIntact ==
    [][\A c \in Callers :
           (Returns(c) /\ last'.err /= "") =>
               cache'[call[c].nodeid] = cache[call[c].nodeid]]_vars

\* C7: a step changes the cache entry of an instance only if it is the commit
\* of a publish for that instance, and such a commit leaves the connections
\* of the other instances alone.
C7_OtherInstancesUntouched ==
    [][/\ \A y \in Nodes :
              cache'[y] /= cache[y] =>
                  \E c \in Callers : Commits(c) /\ call[c].nodeid = y
       /\ \A c \in Callers :
              Commits(c) =>
                  \A w \in Watchers :
                      watch[w].node /= call[c].nodeid => watch'[w] = watch[w]]_vars

\* publishes for two instances about to commit at once, one of the two
\* instances holding a committed snapshot already
C7_Witness ==
    \E c, d \in Callers :
        /\ call[c].pc = "set" /\ call[d].pc = "set"
        /\ call[c].nodeid /= call[d].nodeid
        /\ cache[call[d].nodeid].present
        /\ commits[call[d].nodeid] /= <<>>

\* C6: once DeleteProxy has returned without error for an instance, the cache
\* holds no snapshot for its node id.
C6_DeleteClearsCache ==
    (last.op = "delete" /\ last.err = "") => ~cache[last.node].present

----------------------------------------------------------------------------
(* Claims about the RBAC compiler.  Requests are matched the way Envoy's RBAC *)
(* filter matches them: a policy matches when one of its permissions and one *)
(* of its principals match; under action ALLOW a request is permitted iff    *)
(* some policy matches.                                                      *)

MetadataInputs ==
    {[p \in {} |-> ""]}
        \cup {(<<"method">> :> m) :
                 m \in {initializeMethod, initializedMethod, toolsListMethod, toolsCallMethod}}
        \cup {(<<"method">> :> toolsCallMethod) @@ (<<"params", "name">> :> t) :
                 t \in {"add", "getTinyImage", "echo"}}
        \cup {(<<"method">> :> toolsListMethod) @@ (<<"params", "name">> :> "add")}

Headers(method, identity, session) ==
    [h \in {":method"} \cup (IF identity = "" THEN {} ELSE {"x-user-role"})
                       \cup (IF session THEN {mcpSessionIDHeader} ELSE {}) |->
        IF h = ":method" THEN method
        ELSE IF h = "x-user-role" THEN identity
        ELSE "session-1"]

Requests ==
    {[headers |-> Headers(m, id, s), metadata |-> md] :
        m \in {"GET", "POST", "DELETE"}, id \in {"", IdA, SaB, IdC},
        s \in BOOLEAN, md \in MetadataInputs}

HeaderMatch(h, req) ==
    /\ h.name \in DOMAIN req.headers
    /\ CASE h.match.kind = "present" -> TRUE
         [] h.match.kind = "exact" -> req.headers[h.name] = h.match.value

RECURSIVE ValueMatch(_, _)
ValueMatch(m, v) ==
    CASE m.kind = "exact" -> v = m.value
      [] m.kind = "or_match" -> \E i \in DOMAIN m.matchers : ValueMatch(m.matchers[i], v)

RECURSIVE PrincipalMatch(_, _)
PrincipalMatch(p, req) ==
    CASE p.kind = "any" -> TRUE
      [] p.kind = "header" -> HeaderMatch(p, req)
      [] p.kind = "and_ids" -> \A i \in DOMAIN p.ids : PrincipalMatch(p.ids[i], req)
      [] p.kind = "or_ids" -> \E i \in DOMAIN p.ids : PrincipalMatch(p.ids[i], req)

RECURSIVE PermissionMatch(_, _)
PermissionMatch(p, req) ==
    CASE p.kind = "any" -> TRUE
      [] p.kind = "header" -> HeaderMatch(p, req)
      [] p.kind = "sourced_metadata" ->
            /\ p.filter = mcpProxyFilterName
            /\ p.path \in DOMAIN req.metadata
            /\ ValueMatch(p.value, req.metadata[p.path])
      [] p.kind = "and_rules" -> \A i \in DOMAIN p.rules : PermissionMatch(p.rules[i], req)
      [] p.kind = "or_rules" -> \E i \in DOMAIN p.rules : PermissionMatch(p.rules[i], req)

PolicyMatch(policy, req) ==
    /\ \E i \in DOMAIN policy.permissions : PermissionMatch(policy.permissions[i], req)
    /\ \E i \in DOMAIN policy.principals : PrincipalMatch(policy.principals[i], req)

Permitted(rbac, req) ==
    LET matched == \E n \in DOMAIN rbac.policies : PolicyMatch(rbac.policies[n], req)
    IN IF rbac.action = RBAC_ALLOW THEN matched ELSE ~matched

Compiled == rbacOut.compiled /\ rbacOut.err = ""

\* the policy the compiler applies to the drawn backend, NilAuthPolicy if none
Applied == findAuthPolicyForBackend(rbacIn.backend, rbacIn.lister).policy

\* C8: whatever AuthPolicy targets the backend (none, action ALLOW, action unset
\* or unrecognized), the compiled action is ALLOW and both baked-in policies
\* are in the policy map under their fixed names with their fixed definitions.
C8_AllowWithBakedInPolicies ==
    Compiled =>
        /\ rbacOut.action = RBAC_ALLOW
        /\ allowMCPSessionClosePolicyName \in DOMAIN rbacOut.policies
        /\ allowAnyoneToInitializeAndListToolsPolicyName \in DOMAIN rbacOut.policies
        /\ rbacOut.policies[allowMCPSessionClosePolicyName]
               = [principals |->
                     <<[kind |-> "and_ids",
                        ids |-> <<[kind |-> "header", name |-> ":method",
                                   match |-> [kind |-> "exact", value |-> "DELETE"]],
                                  [kind |-> "header", name |-> "mcp-session-id",
                                   match |-> [kind |-> "present"]]>>]>>,
                  permissions |-> <<[kind |-> "any"]>>]
        /\ rbacOut.policies[allowAnyoneToInitializeAndListToolsPolicyName]
               = [principals |-> <<[kind |-> "any"]>>,
                  permissions |->
                     <<[kind |-> "or_rules",
                        rules |->
                           <<[kind |-> "sourced_metadata", filter |-> "mcp_proxy",
                              path |-> <<"method">>,
                              value |->
                                 [kind |-> "or_match",
                                  matchers |->
                                     <<[kind |-> "exact", value |-> "initialize"],
                                       [kind |-> "exact",
                                        value |-> "notifications/initialized"],
                                       [kind |-> "exact", value |-> "tools/list"]>>]],
                             [kind |-> "header", name |-> ":method",
                              match |-> [kind |-> "exact", value |-> "GET"]]>>]>>]

\* a policy with an unrecognized action and rules of its own was compiled
C8_Witness ==
    /\ Compiled
    /\ Applied /= NilAuthPolicy
    /\ Applied.action = "DENY"
    /\ Len(Applied.rules) = MaxRules

\* C9: every DELETE request that carries the mcp-session-id header is
\* permitted by the compiled configuration, whatever the AuthPolicy, the
\* caller's identity and the request's metadata.
C9_SessionCloseAlwaysPermitted ==
    Compiled =>
        \A req \in Requests :
            (req.headers[":method"] = "DELETE" /\ mcpSessionIDHeader \in DOMAIN req.headers)
                => Permitted(rbacOut, req)

\* a policy with rules was compiled and a caller that is in no rule's source
\* closes a session
C9_Witness ==
    /\ Compiled
    /\ Applied /= NilAuthPolicy
    /\ Len(Applied.rules) > 0
    /\ \E req \in Requests :
          /\ req.headers[":method"] = "DELETE"
          /\ mcpSessionIDHeader \in DOMAIN req.headers
          /\ "x-user-role" \in DOMAIN req.headers
          /\ req.headers["x-user-role"] = IdC
          /\ Permitted(rbacOut, req)

\* C10: every GET request, and every POST request whose mcp_proxy metadata
\* `method` is initialize, notifications/initialized or tools/list, is
\* permitted, whatever the AuthPolicy and the caller's identity.
C10_HandshakeAlwaysPermitted ==
    Compiled =>
        \A req \in Requests :
            (\/ req.headers[":method"] = "GET"
             \/ /\ req.headers[":method"] = "POST"
                /\ <<"method">> \in DOMAIN req.metadata
                /\ req.metadata[<<"method">>] \in
                       {"initialize", "notifications/initialized", "tools/list"})
                => Permitted(rbacOut, req)

\* a policy whose rules all name sources was compiled, and a caller without
\* any identity lists the tools
C10_Witness ==
    /\ Compiled
    /\ Applied /= NilAuthPolicy
    /\ Len(Applied.rules) > 0
    /\ \A i \in DOMAIN Applied.rules : Len(Applied.rules[i].source.identities) > 0
    /\ \E req \in Requests :
          /\ req.headers[":method"] = "POST"
          /\ "x-user-role" \notin DOMAIN req.headers
          /\ <<"method">> \in DOMAIN req.metadata
          /\ req.metadata[<<"method">>] = "tools/list"
          /\ Permitted(rbacOut, req)

\* a POST request that invokes a tool
IsToolsCall(req) ==
    /\ req.headers[":method"] = "POST"
    /\ <<"method">> \in DOMAIN req.metadata
    /\ req.metadata[<<"method">>] = "tools/call"
    /\ <<"params", "name">> \in DOMAIN req.metadata

\* the caller's identity, "" when the request carries none
Identity(req) ==
    IF "x-user-role" \in DOMAIN req.headers THEN req.headers["x-user-role"] ELSE ""

\* C11 as stated: with no AuthPolicy targeting the backend, every request,
\* tool invocations by any caller included, is permitted.
C11_NoPolicyFailOpen ==
    (Compiled /\ Applied = NilAuthPolicy) =>
        \A req \in Requests : IsToolsCall(req) => Permitted(rbacOut, req)

\* C11 amended: with no AuthPolicy targeting the backend the action is ALLOW
\* and the policy map holds the two baked-in policies only, so exactly the
\* basic protocol operations are permitted (GET, session close, initialize,
\* notifications/initialized, tools/list) and no tool invocation is.
C11_NoPolicyBasicOperationsOnly ==
    (Compiled /\ Applied = NilAuthPolicy) =>
        /\ rbacOut.action = RBAC_ALLOW
        /\ DOMAIN rbacOut.policies
               = {"allow-mcp-session-close", "allow-anyone-to-initialize-and-list-tools"}
        /\ \A req \in Requests :
               Permitted(rbacOut, req) <=>
                   \/ req.headers[":method"] = "GET"
                   \/ /\ req.headers[":method"] = "DELETE"
                      /\ "mcp-session-id" \in DOMAIN req.headers
                   \/ /\ <<"method">> \in DOMAIN req.metadata
                      /\ req.metadata[<<"method">>] \in
                             {"initialize", "notifications/initialized", "tools/list"}
        /\ \A req \in Requests : IsToolsCall(req) => ~Permitted(rbacOut, req)

\* policies exist in the backend's namespace, none of them targets the backend
C11_Witness ==
    /\ Compiled
    /\ Applied = NilAuthPolicy
    /\ \E i \in DOMAIN rbacIn.lister.items :
           rbacIn.lister.items[i].namespace = rbacIn.backend.namespace

Elems(seq) == {seq[i] : i \in DOMAIN seq}

\* the name under which the rule at position i (from 1) of the applied policy
\* is expected in the policy map
RuleEntryName(i) ==
    rbacIn.backend.namespace \o "-" \o rbacIn.backend.name \o "-rule-" \o ToString(i - 1)

\* the sources a rule lists, identities and service accounts alike
Sources(rule) == Elems(rule.source.identities) \cup Elems(rule.source.serviceAccounts)

\* C12: the permission compiled from a rule with tools matches a request iff
\* its metadata method is tools/call and its metadata params.name is one of
\* the rule's tools; hence a POST tools/call request is permitted iff some
\* rule lists the caller in its source and the tool in its tools.
C12_ToolsPermissionMatchesListedTools ==
    (Compiled /\ Applied /= NilAuthPolicy) =>
        LET rules == Applied.rules
            toolsCalls == {req \in Requests : IsToolsCall(req)}
        IN /\ \A i \in DOMAIN rules :
                  Len(rules[i].tools) > 0 =>
                      LET permissions == rbacOut.policies[RuleEntryName(i)].permissions
                          tools == Elems(rules[i].tools)
                      IN \A req \in Requests :
                             (\E k \in DOMAIN permissions :
                                  PermissionMatch(permissions[k], req))
                             <=> /\ <<"method">> \in DOMAIN req.metadata
                                 /\ req.metadata[<<"method">>] = "tools/call"
                                 /\ <<"params", "name">> \in DOMAIN req.metadata
                                 /\ req.metadata[<<"params", "name">>] \in tools
           /\ \A req \in toolsCalls :
                  Permitted(rbacOut, req) <=>
                      \E i \in DOMAIN rules :
                          /\ Identity(req) \in Sources(rules[i])
                          /\ req.metadata[<<"params", "name">>] \in Elems(rules[i].tools)

\* a rule listing add and getTinyImage for a caller was compiled: the caller's
\* invocation of getTinyImage is permitted, its invocation of echo is not
C12_Witness ==
    /\ Compiled
    /\ Applied /= NilAuthPolicy
    /\ \E i \in DOMAIN Applied.rules :
           /\ Applied.rules[i].tools = <<"add", "getTinyImage">>
           /\ IdA \in Sources(Applied.rules[i])
    /\ \E r1, r2 \in Requests :
           /\ IsToolsCall(r1) /\ Identity(r1) = IdA
           /\ r1.metadata[<<"params", "name">>] = "getTinyImage"
           /\ Permitted(rbacOut, r1)
           /\ IsToolsCall(r2) /\ Identity(r2) = IdA
           /\ r2.metadata[<<"params", "name">>] = "echo"
           /\ ~Permitted(rbacOut, r2)

\* C13: the principal compiled from a rule matches a request iff the
\* request's x-user-role header value equals one of the rule's identities or
\* one of its service accounts, compared as exact strings.
C13_PrincipalMatchesEitherList ==
    (Compiled /\ Applied /= NilAuthPolicy) =>
        LET rules == Applied.rules
        IN \A i \in DOMAIN rules :
               LET principals == rbacOut.policies[RuleEntryName(i)].principals
                   identities == rules[i].source.identities
                   serviceAccounts == rules[i].source.serviceAccounts
               IN \A req \in Requests :
                      (\E k \in DOMAIN principals : PrincipalMatch(principals[k], req))
                      <=> /\ "x-user-role" \in DOMAIN req.headers
                          /\ \/ \E j \in DOMAIN identities :
                                    req.headers["x-user-role"] = identities[j]
                             \/ \E j \in DOMAIN serviceAccounts :
                                    req.headers["x-user-role"] = serviceAccounts[j]

\* a rule listing an identity and a service account was compiled next to a
\* rule listing a wildcard service account: the first rule's principal
\* matches both callers and not a third, the wildcard matches no caller
C13_Witness ==
    /\ Compiled
    /\ Applied /= NilAuthPolicy
    /\ \E i, j \in DOMAIN Applied.rules :
           /\ Applied.rules[i].source = [identities |-> <<IdA>>, serviceAccounts |-> <<SaB>>]
           /\ Applied.rules[j].source.serviceAccounts = <<"default/*">>
           /\ \E ra, rb, rc \in Requests :
                  /\ Identity(ra) = IdA /\ Identity(rb) = SaB /\ Identity(rc) = IdC
                  /\ PrincipalMatch(rbacOut.policies[RuleEntryName(i)].principals[1], ra)
                  /\ PrincipalMatch(rbacOut.policies[RuleEntryName(i)].principals[1], rb)
                  /\ ~PrincipalMatch(rbacOut.policies[RuleEntryName(i)].principals[1], rc)
                  /\ ~PrincipalMatch(rbacOut.policies[RuleEntryName(j)].principals[1], rb)

\* seq without its element at position i
RemoveAt(seq, i) == [j \in 1..(Len(seq) - 1) |-> IF j < i THEN seq[j] ELSE seq[j + 1]]

\* the lister content in which the applied policy lacks its rule at position i
ListerWithoutRule(i) ==
    [err |-> "", items |-> <<[Applied EXCEPT !.rules = RemoveAt(@, i)]>>]

\* the principals expected for a rule: none without sources, else one OR over
\* exact matches of the x-user-role header, identities first
ExpectedPrincipals(rule) ==
    LET all == rule.source.identities \o rule.source.serviceAccounts
    IN IF all = << >> THEN << >>
       ELSE <<[kind |-> "or_ids",
               ids |-> [j \in 1..Len(all) |->
                          [kind |-> "header", name |-> "x-user-role",
                           match |-> [kind |-> "exact", value |-> all[j]]]]]>>

\* C14: a rule with an empty tools list has an entry of its own in the
\* policy map, under the name of its index, with the rule's principals and an
\* empty permission list; the entry matches no request, and the output is
\* not the output compiled from the policy without that rule.
C14_EmptyToolsRuleKeptInert ==
    (Compiled /\ Applied /= NilAuthPolicy) =>
        LET rules == Applied.rules
        IN \A i \in DOMAIN rules :
               rules[i].tools = << >> =>
                   /\ RuleEntryName(i) \in DOMAIN rbacOut.policies
                   /\ LET entry == rbacOut.policies[RuleEntryName(i)]
                      IN /\ entry.permissions = << >>
                         /\ entry.principals = ExpectedPrincipals(rules[i])
                         /\ \A req \in Requests : ~PolicyMatch(entry, req)
                   /\ rbacOut /= rbacConfigFromAuthPolicy(ListerWithoutRule(i),
                                                          rbacIn.backend)

\* a policy whose rule with sources and no tools follows a rule with tools
C14_Witness ==
    /\ Compiled
    /\ Applied /= NilAuthPolicy
    /\ Len(Applied.rules) = 2
    /\ Applied.rules[1].tools /= << >>
    /\ Applied.rules[2].tools = << >>
    /\ Applied.rules[2].source.identities /= << >>
    /\ RuleEntryName(2) \in DOMAIN rbacOut.policies

\* C15: when the applied policy holds a rule with an empty tools list, no
\* POST tools/call request from a caller in that rule's source is permitted,
\* whatever the other rules of the policy are.
C15_EmptyToolsDeniesSource ==
    (Compiled /\ Applied /= NilAuthPolicy) =>
        \A i \in DOMAIN Applied.rules :
            Applied.rules[i].tools = << >> =>
                \A req \in Requests :
                    (IsToolsCall(req) /\ Identity(req) \in Sources(Applied.rules[i]))
                        => ~Permitted(rbacOut, req)

\* C16: a rule with tools whose source lists neither identities nor service
\* accounts permits a POST tools/call request naming one of its tools from
\* every caller identity.
C16_OmittedSourceMatchesAnyCaller ==
    (Compiled /\ Applied /= NilAuthPolicy) =>
        \A i \in DOMAIN Applied.rules :
            (Sources(Applied.rules[i]) = {} /\ Applied.rules[i].tools /= << >>) =>
                \A req \in Requests :
                    (/\ IsToolsCall(req)
                     /\ req.metadata[<<"params", "name">>] \in Elems(Applied.rules[i].tools))
                        => Permitted(rbacOut, req)

\* the permissions expected for a rule: none without tools, else method
\* tools/call AND params.name one of the tools
ExpectedPermissions(rule) ==
    IF rule.tools = << >> THEN << >>
    ELSE <<[kind |-> "and_rules",
            rules |->
               <<[kind |-> "sourced_metadata", filter |-> "mcp_proxy",
                  path |-> <<"method">>,
                  value |-> [kind |-> "exact", value |-> "tools/call"]],
                 [kind |-> "sourced_metadata", filter |-> "mcp_proxy",
                  path |-> <<"params", "name">>,
                  value |-> IF Len(rule.tools) = 1
                            THEN [kind |-> "exact", value |-> rule.tools[1]]
                            ELSE [kind |-> "or_match",
                                  matchers |->
                                     [j \in 1..Len(rule.tools) |->
                                        [kind |-> "exact", value |-> rule.tools[j]]]]]>>]>>

\* C17: for a policy with n rules the policy map holds, besides the two
\* baked-in policies, exactly the n entries <namespace>-<name>-rule-<i>,
\* i = 0..n-1, named after the backend, and entry i is what rule i compiles to.
C17_OneEntryPerRuleByIndex ==
    (Compiled /\ Applied /= NilAuthPolicy) =>
        LET rules == Applied.rules
        IN /\ DOMAIN rbacOut.policies
                  = {"allow-mcp-session-close",
                     "allow-anyone-to-initialize-and-list-tools"}
                       \cup {RuleEntryName(i) : i \in DOMAIN rules}
           /\ Cardinality(DOMAIN rbacOut.policies) = Len(rules) + 2
           /\ \A i \in DOMAIN rules :
                  rbacOut.policies[RuleEntryName(i)]
                      = [principals |-> ExpectedPrincipals(rules[i]),
                         permissions |-> ExpectedPermissions(rules[i])]

\* a policy named otherwise than its backend, with two different rules, was
\* compiled for the backend of namespace prod
C17_Witness ==
    /\ Compiled
    /\ Applied /= NilAuthPolicy
    /\ Applied.name /= rbacIn.backend.name
    /\ Len(Applied.rules) = 2
    /\ Applied.rules[1] /= Applied.rules[2]
    /\ "prod-mcp-rule-0" \in DOMAIN rbacOut.policies
    /\ "prod-mcp-rule-1" \in DOMAIN rbacOut.policies
    /\ rbacOut.policies["prod-mcp-rule-0"] /= rbacOut.policies["prod-mcp-rule-1"]

\* C19: when listing the AuthPolicies of the backend's namespace fails, the
\* compiler returns an error that names the namespace and wraps the cause,
\* and no RBAC configuration: no action, no policy, not even a baked-in one.
C19_ListErrorReturnsNoConfig ==
    (rbacOut.compiled /\ rbacIn.lister.err /= "") =>
        /\ rbacOut.err = "failed to list AuthPolicies in namespace "
                             \o rbacIn.backend.namespace \o ": " \o rbacIn.lister.err
        /\ rbacOut.action = ""
        /\ rbacOut.policies = EmptyMap

\* the compiler has run for the backend of namespace prod on a lister that fails
C19_Witness ==
    /\ rbacOut.compiled
    /\ rbacIn.lister.err = "context deadline exceeded"
    /\ rbacIn.backend.namespace = "prod"
    /\ rbacOut.err /= ""

----------------------------------------------------------------------------
(* Claims about the cluster compiler *)

\* C20: for a Backend whose service name is set, with or without a hostname,
\* convertBackendToCluster returns without error the cluster
\* <namespace>-<name>: strict DNS, the single endpoint
\* <service>.<namespace>.svc.cluster.local on the configured port, a connect
\* timeout of 5 seconds, no transport socket.
C20_InClusterBackendCluster ==
    (clusterOut.converted /\ clusterIn.mcp.serviceName /= "") =>
        /\ clusterOut.err = ""
        /\ clusterOut.cluster.name = clusterIn.namespace \o "-" \o clusterIn.name
        /\ clusterOut.cluster.type = "STRICT_DNS"
        /\ clusterOut.cluster.loadAssignment.endpoints
               = <<[address |-> clusterIn.mcp.serviceName \o "." \o clusterIn.namespace
                                    \o ".svc.cluster.local",
                    port |-> clusterIn.mcp.port]>>
        /\ clusterOut.cluster.connectTimeout = 5
        /\ ~clusterOut.cluster.transportSocket.set

\* the Backend svc of namespace ns on port 8080, a hostname set as well, was
\* converted: its endpoint is svc.ns.svc.cluster.local:8080
C20_Witness ==
    /\ clusterOut.converted
    /\ clusterIn.namespace = "ns" /\ clusterIn.name = "svc"
    /\ clusterIn.mcp.serviceName = "svc" /\ clusterIn.mcp.port = 8080
    /\ clusterIn.mcp.hostname /= ""
    /\ clusterOut.cluster.loadAssignment.endpoints
           = <<[address |-> "svc.ns.svc.cluster.local", port |-> 8080]>>

\* C21: for a Backend without service name, convertBackendToCluster returns
\* an error and no cluster when the TLS context cannot be serialized, and
\* otherwise the cluster <namespace>-<name> with logical DNS, the endpoint
\* hostname:port and a TLS transport socket whose SNI is the hostname; it
\* never returns an external cluster without transport socket.
C21_ExternalBackendClusterHasTLS ==
    (clusterOut.converted /\ clusterIn.mcp.serviceName = "") =>
        /\ clusterOut.anyErr /= "" =>
               /\ clusterOut.err = clusterOut.anyErr
               /\ clusterOut.cluster = NilCluster
        /\ clusterOut.anyErr = "" =>
               /\ clusterOut.err = ""
               /\ clusterOut.cluster.name = clusterIn.namespace \o "-" \o clusterIn.name
               /\ clusterOut.cluster.type = "LOGICAL_DNS"
               /\ clusterOut.cluster.loadAssignment.endpoints
                      = <<[address |-> clusterIn.mcp.hostname,
                           port |-> clusterIn.mcp.port]>>
               /\ clusterOut.cluster.transportSocket
                      = [set |-> TRUE, name |-> "envoy.transport_sockets.tls",
                         sni |-> clusterIn.mcp.hostname]
        /\ clusterOut.cluster.type = "LOGICAL_DNS" => clusterOut.cluster.transportSocket.set

\* the conversion of the external Backend api.example.com:443 failed on the
\* serialization of its TLS context
C21_Witness ==
    /\ clusterOut.converted
    /\ clusterIn.mcp.serviceName = ""
    /\ clusterIn.mcp.hostname = "api.example.com" /\ clusterIn.mcp.port = 443
    /\ clusterOut.anyErr /= ""
    /\ clusterOut.err /= ""

----------------------------------------------------------------------------
(* Claims about the Backend resolution *)

Range(seq) == {seq[i] : i \in DOMAIN seq}

\* the namespace a backendRef points into
RefNamespace(args) ==
    IF args.backendRef.namespace = Nil THEN args.namespace ELSE args.backendRef.namespace

\* the grants of the referent's namespace that let HTTPRoutes of the route's
\* namespace refer to the name
PermittingGrants(args) ==
    {g \in args.referenceGrantLister :
        /\ g.namespace = RefNamespace(args)
        /\ \E f \in g.from : /\ f.kind = "HTTPRoute"
                             /\ f.group = GatewayGroupName
                             /\ f.namespace = args.namespace
        /\ \E t \in g.to : /\ t.group = "" /\ t.kind = "Service"
                           /\ t.name \in {Nil, args.backendRef.name}}

ReferredBackends(args) ==
    {b \in args.backendLister :
        b.namespace = RefNamespace(args) /\ b.name = args.backendRef.name}

ServiceMissing(args, b) ==
    /\ b.mcp.serviceName /= ""
    /\ ~\E s \in args.serviceLister :
           s.namespace = b.namespace /\ s.name = b.mcp.serviceName

\* C22: fetchBackend answers a kind other than Backend with InvalidKind,
\* otherwise an unpermitted cross-namespace reference with RefNotPermitted
\* without having looked the Backend up, otherwise a missing Backend with
\* BackendNotFound, otherwise a missing Service of the Backend's namespace
\* with BackendNotFound; every failure is a reason with a message and no
\* Backend, and the Backend is returned when no check fails.
C22_FetchBackendChecksInOrder ==
    fetch.called =>
        LET args == fetch.args
            result == fetch.result
            kindBad == args.backendRef.kind \notin {Nil, "Backend"}
            refused == RefNamespace(args) /= args.namespace /\ PermittingGrants(args) = {}
            backends == ReferredBackends(args)
        IN /\ result.err /= NoError =>
                  /\ result.err.reason /= "" /\ result.err.message /= ""
                  /\ result.backend = NilBackend
           /\ IF kindBad
              THEN /\ result.err.reason = "InvalidKind"
                   /\ result.lookups = << >>
              ELSE IF refused
              THEN /\ result.err.reason = "RefNotPermitted"
                   /\ "backends" \notin Range(result.lookups)
                   /\ "services" \notin Range(result.lookups)
              ELSE IF backends = {}
              THEN /\ result.err.reason = "BackendNotFound"
                   /\ "services" \notin Range(result.lookups)
              ELSE IF \E b \in backends : ServiceMissing(args, b)
              THEN result.err.reason = "BackendNotFound"
              ELSE /\ result.err = NoError
                   /\ result.backend \in backends

\* a reference into namespace prod that no grant permits, to a Backend that
\* does not exist either, was answered with RefNotPermitted
C22_Witness ==
    /\ fetch.called
    /\ fetch.args.backendRef.kind = "Backend"
    /\ fetch.args.backendRef.namespace = "prod"
    /\ PermittingGrants(fetch.args) = {}
    /\ ReferredBackends(fetch.args) = {}
    /\ fetch.result.err.reason = "RefNotPermitted"

----------------------------------------------------------------------------
(* Claims about the distribution server's start and stop *)

\* interfaces that are up, not loopback, and have an IPv4 address that is
\* neither loopback nor link-local
Eligible(interfaces) ==
    {iface \in Range(interfaces) :
        /\ iface.up /\ ~iface.loopback
        /\ \E k \in DOMAIN iface.addrs :
               /\ To4(iface.addrs[k])
               /\ ~IsLoopback(iface.addrs[k])
               /\ ~IsLinkLocalUnicast(iface.addrs[k])}

\* the interface the address is to be taken from
Preferred(interfaces) ==
    LET eligible == Eligible(interfaces)
    IN IF \E iface \in eligible : iface.name = "docker0"
       THEN CHOOSE iface \in eligible : iface.name = "docker0"
       ELSE IF \E iface \in eligible : iface.name = "eth0"
       THEN CHOOSE iface \in eligible : iface.name = "eth0"
       ELSE CHOOSE iface \in eligible :
                \A other \in eligible \ {iface} : StringLess(iface.name, other.name)

\* C23: Run takes the address of docker0 if docker0 is eligible, otherwise
\* of eth0 if eth0 is eligible, otherwise of the eligible interface whose
\* name is smallest, whatever the order of enumeration; when no interface
\* is eligible Run returns an error and has neither listener nor address.
C23_ControlPlaneAddressByPreference ==
    xdsRun.state = "returned" =>
        IF xdsRun.interfacesErr /= "" \/ Eligible(xdsRun.interfaces) = {}
        THEN /\ xdsRun.err /= ""
             /\ xdsRun.listener = "none"
             /\ xdsRun.Address = "" /\ xdsRun.Port = 0
        ELSE \/ /\ xdsRun.err = ""
                /\ xdsRun.listener = "serving"
                /\ LET addrs == Preferred(xdsRun.interfaces).addrs
                       first == CHOOSE k \in DOMAIN addrs :
                                    /\ addrs[k] \in {"10.244.0.1", "172.17.0.1", "10.0.0.5",
                                                     "192.168.1.10", "10.0.0.6", "10.9.9.9"}
                                    /\ \A j \in 1..(k - 1) :
                                           addrs[j] \in {"fe80::1", "127.0.0.2", "169.254.10.1"}
                   IN xdsRun.Address = addrs[first]
             \/ /\ xdsRun.err = "listen tcp: bind: cannot assign requested address"
                /\ xdsRun.listener = "none"

\* a host that enumerates wlan0 and eth0 before docker0, all three usable,
\* serves on docker0's address
C23_Witness ==
    /\ xdsRun.state = "returned"
    /\ Len(xdsRun.interfaces) = 3
    /\ xdsRun.interfaces[1].name = "wlan0"
    /\ xdsRun.interfaces[2].name = "eth0"
    /\ xdsRun.interfaces[3].name = "docker0"
    /\ Eligible(xdsRun.interfaces) = Range(xdsRun.interfaces)
    /\ xdsRun.Address = "172.17.0.1"
    /\ xdsRun.listener = "serving"

\* C24: after the context is cancelled the server accepts no new
\* connection, and a connection whose stream is in flight when the server
\* stops is closed only after that stream has finished: none is cut off.
C24_ActiveConnectionsDrained ==
    /\ xdsRun.listener = "stopped" => xdsRun.ctx = "cancelled"
    /\ \A c \in Conns : conns[c] /= "cut"

----------------------------------------------------------------------------
(* Claims about the controller *)

Occurrences(seq, x) == Cardinality({i \in DOMAIN seq : seq[i] = x})

\* C27: a call of processNextWorkItem that took a key ends with Done for
\* that key, called once and last; after a sync error the key has been
\* re-added with AddRateLimited and not forgotten; after a sync without
\* error, as for a key that cannot be split, the key has been forgotten and
\* not re-added; the call returns false, and the worker stops, only when
\* the queue is shut down, never after a sync error.
C27_WorkItemDoneOnceRequeuedOnError ==
    [][\A w \in Workers :
        /\ (workers[w].pc = "sync" /\ workers'[w].pc /= "sync") =>
              LET obj == workers[w].key
                  calls == workers'[w].calls
              IN /\ workers'[w].returned = "true"
                 /\ workers'[w].pc = "idle"
                 /\ Occurrences(calls, "Done") = 1
                 /\ calls[Len(calls)] = "Done"
                 /\ obj \notin gatewayqueue'.processing
                 /\ SplitMetaNamespaceKey(obj).err /= "" => workers'[w].syncErr = ""
                 /\ IF workers'[w].syncErr /= ""
                    THEN /\ Occurrences(calls, "AddRateLimited") = 1
                         /\ Occurrences(calls, "Forget") = 0
                         /\ gatewayqueue'.requeues[obj] = gatewayqueue.requeues[obj] + 1
                         /\ gatewayqueue.shuttingDown \/ obj \in gatewayqueue'.waiting
                    ELSE /\ Occurrences(calls, "Forget") = 1
                         /\ Occurrences(calls, "AddRateLimited") = 0
                         /\ gatewayqueue'.requeues[obj] = 0
                         /\ gatewayqueue'.waiting = gatewayqueue.waiting
        /\ (workers[w].pc /= "stopped" /\ workers'[w].pc = "stopped") =>
              /\ workers'[w].returned = "false"
              /\ workers[w].pc = "idle"
              /\ gatewayqueue.shuttingDown
    ]_vars

\* a worker's sync of default/gw-a failed: the key waits for its requeue,
\* counted once, and the worker is ready for its next item
C27_Witness ==
    \E w \in Workers :
        /\ workers[w].pc = "idle"
        /\ workers[w].key = Key("default", "gw-a")
        /\ workers[w].syncErr /= ""
        /\ workers[w].calls = <<"Get", "syncHandler", "AddRateLimited", "Done">>
        /\ Key("default", "gw-a") \in gatewayqueue.waiting
        /\ gatewayqueue.requeues[Key("default", "gw-a")] = 1

\* nothing is left to do: no key queued, none waiting for its requeue, no
\* worker inside processNextWorkItem
Quiescent ==
    /\ gatewayqueue.queue = << >>
    /\ gatewayqueue.waiting = {}
    /\ \A w \in Workers : workers[w].pc /= "sync"

NodeOfKey(key) ==
    proxyName(SplitMetaNamespaceKey(key).namespace, SplitMetaNamespaceKey(key).name)

\* C25: a change of a Backend, of its policy, of a Gateway or of a route
\* ends in a snapshot published for the proxy instance of every Gateway it
\* concerns: once the controller has nothing left to do, each such instance
\* has a snapshot.
C25_ChangeEndsInNewSnapshot ==
    Quiescent => \A key \in events.changed : commits[NodeOfKey(key)] /= << >>

\* C28: an event of an HTTPRoute adds to the queue the keys
\* <namespace>/<name> of its parent references of group unset or
\* gateway.networking.k8s.io and kind unset or Gateway, the namespace being
\* the reference's or else the route's, each key once, and nothing else; an
\* update takes the references of the old and of the new route.
C28_RouteEventEnqueuesItsGateways ==
    events.count = 1 =>
        LET route == events.route
            refs == Range(route.new)
                      \cup (IF route.type = "update" THEN Range(route.old) ELSE {})
            accepted == {ref \in refs : /\ ref.group \in {Nil, GatewayGroupName}
                                        /\ ref.kind \in {Nil, "Gateway"}}
            expected == {(IF ref.namespace = Nil THEN "default" ELSE ref.namespace)
                            \o "/" \o ref.name : ref \in accepted}
        IN /\ Range(events.last.adds) = expected
           /\ Len(events.last.adds) = Cardinality(expected)
           /\ Range(gatewayqueue.queue) = expected
           /\ Len(gatewayqueue.queue) = Cardinality(expected)
           /\ gatewayqueue.dirty = expected

\* the update of a route from parent gw-a, named twice, to parent gw-b and
\* a Service has put default/gw-a and default/gw-b into the queue, each once
C28_Witness ==
    /\ events.count = 1
    /\ events.route.type = "update"
    /\ events.route.old = <<ParentRef(Nil, Nil, Nil, "gw-a"),
                            ParentRef(GatewayGroupName, "Gateway", "default", "gw-a")>>
    /\ events.route.new = <<ParentRef(Nil, Nil, Nil, "gw-b"),
                            ParentRef(Nil, "Service", Nil, "gw-b")>>
    /\ Len(gatewayqueue.queue) = 2
    /\ Range(gatewayqueue.queue) = {"default/gw-a", "default/gw-b"}

----------------------------------------------------------------------------
(* Claims about the choice among several policies *)

\* the positions of the lister's policies that are of the backend's
\* namespace and target the backend by kind and name
TargetingPositions ==
    {i \in DOMAIN rbacIn.lister.items :
        /\ rbacIn.lister.items[i].namespace = rbacIn.backend.namespace
        /\ rbacIn.lister.items[i].targetRef.kind = "Backend"
        /\ rbacIn.lister.items[i].targetRef.name = rbacIn.backend.name}

\* C26: the compiled configuration is the one of the first policy, in
\* lister order, that is of the backend's namespace and targets the backend
\* by kind Backend and its name, as if that policy were alone: what comes
\* after it, and what is of another namespace or targets another kind or
\* name, contributes nothing; with no such policy the configuration is the
\* one of an empty lister.
C26_FirstTargetingPolicyOnly ==
    Compiled =>
        LET positions == TargetingPositions
            alone == IF positions = {} THEN << >>
                     ELSE <<rbacIn.lister.items[
                               CHOOSE i \in positions : \A j \in positions : i <= j]>>
        IN rbacOut = rbacConfigFromAuthPolicy([err |-> "", items |-> alone],
                                              rbacIn.backend)

\* two policies with different rules target the same backend and the
\* backend was compiled
C26_Witness ==
    /\ Compiled
    /\ Len(rbacIn.lister.items) = 2
    /\ TargetingPositions = {1, 2}
    /\ rbacIn.lister.items[1].rules /= rbacIn.lister.items[2].rules
    /\ Cardinality(DOMAIN rbacOut.policies) = Len(rbacIn.lister.items[1].rules) + 2

----------------------------------------------------------------------------
(* Claims about EnsureProxy *)

\* the calls of the steps 1..n when each meets what `before` says:
\* a lookup, a creation after a lookup that found nothing, the wait
RECURSIVE ExpectedCalls(_, _, _)
ExpectedCalls(i, n, before) ==
    IF i > n THEN << >>
    ELSE <<"get " \o EnsureOrder[i]>>
           \o (IF EnsureOrder[i] \in before THEN << >> ELSE <<"create " \o EnsureOrder[i]>>)
           \o (IF EnsureOrder[i] \in {"Deployment", "Service"}
               THEN <<"wait " \o EnsureOrder[i]>> ELSE << >>)
           \o ExpectedCalls(i + 1, n, before)

IsPrefix(s, t) == Len(s) <= Len(t) /\ \A i \in DOMAIN s : s[i] = t[i]

\* C29: EnsureProxy looks up ServiceAccount, ConfigMap, Deployment, Service
\* in this order, under the node id proxyName(namespace, name); it creates
\* an object only after a lookup that did not find it and keeps what
\* exists; a failing step ends the call with an error, nothing of a later
\* resource is looked up or created; the node id is returned only after
\* all four steps; and a call that follows a successful call for the same
\* gateway creates nothing.
C29_EnsureInOrderCreateIfMissing ==
    ensure.called =>
        /\ ensure.node \in Nodes
        /\ IsPrefix(ensure.calls, ExpectedCalls(1, 4, ensure.before))
        /\ ensure.created
               = {kind \in Range(EnsureOrder) :
                     /\ "create " \o kind \in Range(ensure.calls)
                     /\ ensure.err /= "failed to create envoy " \o kind}
        /\ ensure.created \cap ensure.before = {}
        /\ last.op = "ensure" => k8s[ensure.node] = ensure.before \cup ensure.created
        /\ ensure.err /= "" => ensure.nodeID = ""
        /\ ensure.err = "" =>
               /\ ensure.nodeID = ensure.node
               /\ ensure.calls = ExpectedCalls(1, 4, ensure.before)
               /\ ensure.before \cup ensure.created = Range(EnsureOrder)
        /\ ensure.nodeID /= "" => ensure.err = ""
        /\ ensure.second => ensure.created = {}

\* EnsureProxy for gw-a right after a successful EnsureProxy for gw-a: four
\* lookups, two waits, nothing created, the node id returned
C29_Witness ==
    /\ ensure.called
    /\ ensure.second
    /\ ensure.node = proxyName("default", "gw-a")
    /\ ensure.before = Range(EnsureOrder)
    /\ ensure.calls = <<"get ServiceAccount", "get ConfigMap", "get Deployment",
                        "wait Deployment", "get Service", "wait Service">>
    /\ ensure.created = {}
    /\ ensure.nodeID = proxyName("default", "gw-a")

----------------------------------------------------------------------------
(* Claims about the names within one snapshot *)

RulePolicyNames(rbac) ==
    DOMAIN rbac.policies \ {allowMCPSessionClosePolicyName,
                            allowAnyoneToInitializeAndListToolsPolicyName}

\* C30: Backends that differ in namespace or in name compile to clusters
\* with different names and to RBAC rule policies with different names.
C30_DistinctBackendsDistinctNames ==
    (build.called /\ build.err = "") =>
        \A i, j \in DOMAIN build.backends :
            i /= j =>
                /\ build.clusters[i].name /= build.clusters[j].name
                /\ RulePolicyNames(build.rbac[i]) \cap RulePolicyNames(build.rbac[j]) = {}

====
